---- MODULE Spec2Model ----
(***************************************************************************)
(* Model of the date pipeline of Git-Timetraveler (src/src/date_parser.rs): *)
(* DateParser::parse classifies and validates a typed date expression into  *)
(* a DateInput value, generate_timestamps expands that value under a        *)
(* TimestampConfig into a sequence of UTC timestamps.                       *)
(*                                                                         *)
(* A string is a sequence of characters; a character is a one-character     *)
(* TLA+ string, except "U+0663" which stands for the single character       *)
(* ARABIC-INDIC DIGIT THREE (a character the regex class \d accepts and     *)
(* str::parse::<u32> rejects).                                              *)
(***************************************************************************)
EXTENDS Integers, Sequences, FiniteSets, TLC

VARIABLES input, parsed, config, timestamps, pc

vars == <<input, parsed, config, timestamps, pc>>

(***************************************************************************)
(* Characters                                                              *)
(***************************************************************************)
AsciiDigits == {"0", "1", "2", "3", "4", "5", "6", "7", "8", "9"}

\* regex \d is Unicode-aware: it matches every decimal digit (General
\* Category Nd), of which the model keeps the ASCII ones and one other.
UnicodeDigits == AsciiDigits \cup {"U+0663"}

\* regex \s and str::trim: the White_Space property (space and tab kept).
Whitespace == {" ", "\t"}

LowerLetters == {"a", "b", "c", "d", "e", "f", "g", "h", "i", "j", "k", "l", "m",
                 "n", "o", "p", "q", "r", "s", "t", "u", "v", "w", "x", "y", "z"}

UpperLetters == {"A", "B", "C", "D", "E", "F", "G", "H", "I", "J", "K", "L", "M",
                 "N", "O", "P", "Q", "R", "S", "T", "U", "V", "W", "X", "Y", "Z"}

\* regex [A-Za-z]
AsciiLetters == LowerLetters \cup UpperLetters

LowerOf == [c \in UpperLetters |->
              CASE c = "A" -> "a" [] c = "B" -> "b" [] c = "C" -> "c" [] c = "D" -> "d"
                [] c = "E" -> "e" [] c = "F" -> "f" [] c = "G" -> "g" [] c = "H" -> "h"
                [] c = "I" -> "i" [] c = "J" -> "j" [] c = "K" -> "k" [] c = "L" -> "l"
                [] c = "M" -> "m" [] c = "N" -> "n" [] c = "O" -> "o" [] c = "P" -> "p"
                [] c = "Q" -> "q" [] c = "R" -> "r" [] c = "S" -> "s" [] c = "T" -> "t"
                [] c = "U" -> "u" [] c = "V" -> "v" [] c = "W" -> "w" [] c = "X" -> "x"
                [] c = "Y" -> "y" [] c = "Z" -> "z"]

UpperOf == [c \in LowerLetters |-> CHOOSE u \in UpperLetters : LowerOf[u] = c]

\* str::to_lowercase, character by character
to_lowercase(s) == [i \in 1..Len(s) |-> IF s[i] \in UpperLetters THEN LowerOf[s[i]] ELSE s[i]]

DigitValue == [c \in AsciiDigits |->
                 CASE c = "0" -> 0 [] c = "1" -> 1 [] c = "2" -> 2 [] c = "3" -> 3
                   [] c = "4" -> 4 [] c = "5" -> 5 [] c = "6" -> 6 [] c = "7" -> 7
                   [] c = "8" -> 8 [] c = "9" -> 9]

(***************************************************************************)
(* Result<T>: Ok(v) or Err(kind).  The kinds are the names the              *)
(* specification gives to the messages of the anyhow! calls.               *)
(***************************************************************************)
Ok(v) == [ok |-> TRUE, value |-> v]

Err(kind) == [ok |-> FALSE, error |-> kind]

OkUnit == Ok("unit")

(***************************************************************************)
(* u32.  The model checker's integers are 32-bit signed, so a u32 v is      *)
(* represented by v itself below 2^31 and by v - 2^32 from 2^31 on (the      *)
(* integer with the same 32 bits): u32::MAX is -1, u32::MAX - 1 is -2.      *)
(***************************************************************************)
I32Max == 2147483647

\* the u32 value 2^32 - k, for 1 <= k <= 2^31
U32FromTop(k) == 0 - k

\* a < b on u32
LessU32(a, b) == IF (a < 0) = (b < 0) THEN a < b ELSE b < 0

\* u32::min
MinU32(a, b) == IF LessU32(a, b) THEN a ELSE b

\* a + b on u32 for a small b (0 <= b < 2^31): the sum passes 2^32 exactly
\* when a is in the upper half and the 32-bit sum is back in the lower one.
\* A debug build (overflow checks on) panics on overflow, a release build
\* wraps.
AddU32(a, b, overflow_checks) ==
    IF a >= 0 /\ a > I32Max - b THEN Ok((a - I32Max - 1) + b - I32Max - 1)
    ELSE IF a < 0 /\ a + b >= 0
         THEN IF overflow_checks THEN Err("Panic::AddOverflow") ELSE Ok(a + b)
    ELSE Ok(a + b)

(***************************************************************************)
(* String helpers                                                          *)
(***************************************************************************)
RECURSIVE SkipWs(_, _)
\* first position >= i of s that does not hold a whitespace character
SkipWs(s, i) ==
    IF i <= Len(s) /\ s[i] \in Whitespace THEN SkipWs(s, i + 1) ELSE i

RECURSIVE SkipWsBack(_, _)
\* last position <= i of s that does not hold a whitespace character
SkipWsBack(s, i) ==
    IF i >= 1 /\ s[i] \in Whitespace THEN SkipWsBack(s, i - 1) ELSE i

RECURSIVE RunLength(_, _, _)
\* number of consecutive characters of class cls starting at position i
RunLength(s, i, cls) ==
    IF i <= Len(s) /\ s[i] \in cls THEN 1 + RunLength(s, i + 1, cls) ELSE 0

\* str::trim
trim(s) ==
    LET a == SkipWs(s, 1)
        b == SkipWsBack(s, Len(s))
    IN  IF a > b THEN <<>> ELSE SubSeq(s, a, b)

RECURSIVE SplitFrom(_, _, _)
SplitFrom(s, i, start) ==
    IF i > Len(s) THEN <<SubSeq(s, start, Len(s))>>
    ELSE IF s[i] = "," THEN <<SubSeq(s, start, i - 1)>> \o SplitFrom(s, i + 1, i + 1)
    ELSE SplitFrom(s, i + 1, start)

\* str::split(','): the parts between the commas, empty parts included
split(s) == SplitFrom(s, 1, 1)

contains_comma(s) == \E i \in 1..Len(s) : s[i] = ","

RECURSIVE DecimalValue(_)
DecimalValue(s) ==
    IF s = <<>> THEN 0 ELSE 10 * DecimalValue(SubSeq(s, 1, Len(s) - 1)) + DigitValue[s[Len(s)]]

\* str::parse::<u32> on a captured digit group (at most four characters, so
\* no overflow): fails on a digit that is not ASCII
parse_u32(s) ==
    IF s # <<>> /\ \A i \in 1..Len(s) : s[i] \in AsciiDigits
    THEN Ok(DecimalValue(s))
    ELSE Err("InvalidNumber")

(***************************************************************************)
(* The four compiled regexes of DateParser::new.  Every repeated class is    *)
(* followed by a character outside the class (or by the end), so a group    *)
(* matches exactly when the run of its class has an admissible length.      *)
(***************************************************************************)
NoMatch == [matched |-> FALSE]

Captures(c) == [matched |-> TRUE, caps |-> c]

\* the pattern without its end anchor: ^\s*(\d{4})
year_regex_prefix(s) ==
    LET a == SkipWs(s, 1)
    IN  IF RunLength(s, a, UnicodeDigits) >= 4
        THEN Captures(<<SubSeq(s, a, a + 3)>>)
        ELSE NoMatch

\* ^\s*(\d{4})\s*$
year_regex(s) ==
    LET a == SkipWs(s, 1)
    IN  IF RunLength(s, a, UnicodeDigits) = 4 /\ SkipWs(s, a + 4) = Len(s) + 1
        THEN Captures(<<SubSeq(s, a, a + 3)>>)
        ELSE NoMatch

\* the pattern without the blanks around the dash: ^\s*(\d{4})-(\d{4})\s*$
range_regex_tight(s) ==
    LET a == SkipWs(s, 1)
    IN  IF /\ RunLength(s, a, UnicodeDigits) = 4
           /\ a + 4 <= Len(s) /\ s[a + 4] = "-"
           /\ RunLength(s, a + 5, UnicodeDigits) = 4
           /\ SkipWs(s, a + 9) = Len(s) + 1
        THEN Captures(<<SubSeq(s, a, a + 3), SubSeq(s, a + 5, a + 8)>>)
        ELSE NoMatch

\* ^\s*(\d{4})\s*-\s*(\d{4})\s*$
range_regex(s) ==
    LET a == SkipWs(s, 1)
        d == SkipWs(s, a + 4)
        b == SkipWs(s, d + 1)
    IN  IF /\ RunLength(s, a, UnicodeDigits) = 4
           /\ d <= Len(s) /\ s[d] = "-"
           /\ RunLength(s, b, UnicodeDigits) = 4
           /\ SkipWs(s, b + 4) = Len(s) + 1
        THEN Captures(<<SubSeq(s, a, a + 3), SubSeq(s, b, b + 3)>>)
        ELSE NoMatch

\* ^\s*(\d{4})-(\d{1,2})-(\d{1,2})\s*$
full_date_regex(s) ==
    LET a  == SkipWs(s, 1)
        m  == a + 5
        ml == RunLength(s, m, UnicodeDigits)
        d  == m + ml + 1
        dl == RunLength(s, d, UnicodeDigits)
    IN  IF /\ RunLength(s, a, UnicodeDigits) = 4
           /\ a + 4 <= Len(s) /\ s[a + 4] = "-"
           /\ ml \in 1..2
           /\ m + ml <= Len(s) /\ s[m + ml] = "-"
           /\ dl \in 1..2
           /\ SkipWs(s, d + dl) = Len(s) + 1
        THEN Captures(<<SubSeq(s, a, a + 3), SubSeq(s, m, m + ml - 1), SubSeq(s, d, d + dl - 1)>>)
        ELSE NoMatch

\* the month of the numeric alternative allowed up to four digits
year_month_regex_wide(s) ==
    LET a  == SkipWs(s, 1)
        m  == a + 5
        ml == RunLength(s, m, UnicodeDigits)
        nl == RunLength(s, a, AsciiLetters)
        y  == SkipWs(s, a + nl)
    IN  IF /\ RunLength(s, a, UnicodeDigits) = 4
           /\ a + 4 <= Len(s) /\ s[a + 4] = "-"
           /\ ml \in 1..4
           /\ SkipWs(s, m + ml) = Len(s) + 1
        THEN [matched |-> TRUE, alt |-> 1,
              caps |-> <<SubSeq(s, a, a + 3), SubSeq(s, m, m + ml - 1)>>]
        ELSE IF /\ nl \in 3..9
                /\ y > a + nl
                /\ RunLength(s, y, UnicodeDigits) = 4
                /\ SkipWs(s, y + 4) = Len(s) + 1
        THEN [matched |-> TRUE, alt |-> 2,
              caps |-> <<SubSeq(s, a, a + nl - 1), SubSeq(s, y, y + 3)>>]
        ELSE NoMatch

\* ^\s*(\d{4})-(\d{1,2})\s*$|^\s*([A-Za-z]{3,9})\s+(\d{4})\s*$
\* alt tells which alternative matched: groups 1, 2 or groups 3, 4.
year_month_regex(s) ==
    LET a  == SkipWs(s, 1)
        m  == a + 5
        ml == RunLength(s, m, UnicodeDigits)
        nl == RunLength(s, a, AsciiLetters)
        y  == SkipWs(s, a + nl)
    IN  IF /\ RunLength(s, a, UnicodeDigits) = 4
           /\ a + 4 <= Len(s) /\ s[a + 4] = "-"
           /\ ml \in 1..2
           /\ SkipWs(s, m + ml) = Len(s) + 1
        THEN [matched |-> TRUE, alt |-> 1,
              caps |-> <<SubSeq(s, a, a + 3), SubSeq(s, m, m + ml - 1)>>]
        ELSE IF /\ nl \in 3..9
                /\ y > a + nl
                /\ RunLength(s, y, UnicodeDigits) = 4
                /\ SkipWs(s, y + 4) = Len(s) + 1
        THEN [matched |-> TRUE, alt |-> 2,
              caps |-> <<SubSeq(s, a, a + nl - 1), SubSeq(s, y, y + 3)>>]
        ELSE NoMatch

\* the lookup table built in DateParser::new
month_names ==
    << <<"january", 1>>, <<"jan", 1>>, <<"february", 2>>, <<"feb", 2>>,
       <<"march", 3>>, <<"mar", 3>>, <<"april", 4>>, <<"apr", 4>>,
       <<"may", 5>>, <<"june", 6>>, <<"jun", 6>>, <<"july", 7>>, <<"jul", 7>>,
       <<"august", 8>>, <<"aug", 8>>,
       <<"september", 9>>, <<"sep", 9>>, <<"sept", 9>>,
       <<"october", 10>>, <<"oct", 10>>, <<"november", 11>>, <<"nov", 11>>,
       <<"december", 12>>, <<"dec", 12>> >>

\* the characters of a name of the table, as a string of the model
Chars(name) ==
    CASE name = "january" -> <<"j","a","n","u","a","r","y">>
      [] name = "jan" -> <<"j","a","n">>
      [] name = "february" -> <<"f","e","b","r","u","a","r","y">>
      [] name = "feb" -> <<"f","e","b">>
      [] name = "march" -> <<"m","a","r","c","h">>
      [] name = "mar" -> <<"m","a","r">>
      [] name = "april" -> <<"a","p","r","i","l">>
      [] name = "apr" -> <<"a","p","r">>
      [] name = "may" -> <<"m","a","y">>
      [] name = "june" -> <<"j","u","n","e">>
      [] name = "jun" -> <<"j","u","n">>
      [] name = "july" -> <<"j","u","l","y">>
      [] name = "jul" -> <<"j","u","l">>
      [] name = "august" -> <<"a","u","g","u","s","t">>
      [] name = "aug" -> <<"a","u","g">>
      [] name = "september" -> <<"s","e","p","t","e","m","b","e","r">>
      [] name = "sep" -> <<"s","e","p">>
      [] name = "sept" -> <<"s","e","p","t">>
      [] name = "october" -> <<"o","c","t","o","b","e","r">>
      [] name = "oct" -> <<"o","c","t">>
      [] name = "november" -> <<"n","o","v","e","m","b","e","r">>
      [] name = "nov" -> <<"n","o","v">>
      [] name = "december" -> <<"d","e","c","e","m","b","e","r">>
      [] name = "dec" -> <<"d","e","c">>

(***************************************************************************)
(* Calendar utilities                                                      *)
(***************************************************************************)
\* the rule without its exceptions for the years of the centuries
is_leap_year_julian(year) == year % 4 = 0

is_leap_year(year) ==
    (year % 4 = 0 /\ year % 100 # 0) \/ (year % 400 = 0)

days_in_month(year, month) ==
    IF month \in {1, 3, 5, 7, 8, 10, 12} THEN Ok(31)
    ELSE IF month \in {4, 6, 9, 11} THEN Ok(30)
    ELSE IF month = 2 THEN Ok(IF is_leap_year(year) THEN 29 ELSE 28)
    ELSE Err("InvalidMonth")

(***************************************************************************)
(* chrono::NaiveDate: a year and the ordinal (day of the year, from 1) of    *)
(* the proleptic Gregorian calendar.                                        *)
(***************************************************************************)
\* days of the year before the first day of each month, common year
CumulativeDays == <<0, 31, 59, 90, 120, 151, 181, 212, 243, 273, 304, 334>>

ChronoLeap(y) == y % 4 = 0 /\ (y % 100 # 0 \/ y % 400 = 0)

ChronoYearLength(y) == IF ChronoLeap(y) THEN 366 ELSE 365

\* days before the first day of month m of year y
DaysBefore(y, m) == CumulativeDays[m] + (IF ChronoLeap(y) /\ m > 2 THEN 1 ELSE 0)

\* NaiveDate::from_ymd_opt: "none" unless (y, m, d) is a date of the calendar
from_ymd_opt(y, m, d) ==
    IF /\ m \in 1..12
       /\ d >= 1
       /\ DaysBefore(y, m) + d <= (IF m = 12 THEN ChronoYearLength(y) ELSE DaysBefore(y, m + 1))
    THEN [some |-> TRUE, date |-> [year |-> y, ordinal |-> DaysBefore(y, m) + d]]
    ELSE [some |-> FALSE]

\* Datelike::month and Datelike::day
MonthOf(date) ==
    CHOOSE m \in 1..12 :
        /\ DaysBefore(date.year, m) < date.ordinal
        /\ (m = 12 \/ date.ordinal <= DaysBefore(date.year, m + 1))

DayOf(date) == date.ordinal - DaysBefore(date.year, MonthOf(date))

RECURSIVE AddDays(_, _)
\* NaiveDate + Duration::days(n), n >= 0
AddDays(date, n) ==
    IF date.ordinal + n <= ChronoYearLength(date.year)
    THEN [year |-> date.year, ordinal |-> date.ordinal + n]
    ELSE AddDays([year |-> date.year + 1, ordinal |-> 1],
                 n - (ChronoYearLength(date.year) - date.ordinal + 1))

(***************************************************************************)
(* DateInput                                                               *)
(***************************************************************************)
Year(y) == [tag |-> "Year", year |-> y]

YearMonth(y, m) == [tag |-> "YearMonth", year |-> y, month |-> m]

FullDate(d) == [tag |-> "FullDate", date |-> d]

Range(a, b) == [tag |-> "Range", start |-> a, end |-> b]

List(ys) == [tag |-> "List", years |-> ys]

(***************************************************************************)
(* DateParser: the validators                                              *)
(***************************************************************************)
MinYear == 1970

MaxYear == 2030

MaxRangeSize == 50

\* the two bounds joined by "and": no year is rejected
validate_year_conj(year) ==
    IF year < MinYear /\ year > MaxYear THEN Err("YearOutOfRange") ELSE OkUnit

\* the upper bound compared with >=: the last year of the window is rejected
validate_year_strict(year) ==
    IF year < MinYear \/ year >= MaxYear THEN Err("YearOutOfRange") ELSE OkUnit

validate_year(year) ==
    IF year < MinYear \/ year > MaxYear THEN Err("YearOutOfRange") ELSE OkUnit

validate_month(month) ==
    IF month < 1 \/ month > 12 THEN Err("MonthOutOfRange") ELSE OkUnit

\* the upper bound compared with >=: day 31 is rejected
validate_day_strict(day) ==
    IF day < 1 \/ day >= 31 THEN Err("DayOutOfRange") ELSE OkUnit

validate_day(day) ==
    IF day < 1 \/ day > 31 THEN Err("DayOutOfRange") ELSE OkUnit

\* the size compared with >=: a range of exactly 50 years is rejected
validate_year_range_strict(start_year, end_year) ==
    IF ~validate_year(start_year).ok THEN validate_year(start_year)
    ELSE IF ~validate_year(end_year).ok THEN validate_year(end_year)
    ELSE IF start_year > end_year THEN Err("InvalidRange::StartAfterEnd")
    ELSE IF end_year - start_year + 1 >= MaxRangeSize THEN Err("InvalidRange::TooLarge")
    ELSE OkUnit

validate_year_range(start_year, end_year) ==
    IF ~validate_year(start_year).ok THEN validate_year(start_year)
    ELSE IF ~validate_year(end_year).ok THEN validate_year(end_year)
    ELSE IF start_year > end_year THEN Err("InvalidRange::StartAfterEnd")
    ELSE IF end_year - start_year + 1 > MaxRangeSize THEN Err("InvalidRange::TooLarge")
    ELSE OkUnit

\* the day validated before the month
create_naive_date_day_first(year, month, day) ==
    IF ~validate_year(year).ok THEN validate_year(year)
    ELSE IF ~validate_day(day).ok THEN validate_day(day)
    ELSE IF ~validate_month(month).ok THEN validate_month(month)
    ELSE LET d == from_ymd_opt(year, month, day)
         IN  IF d.some THEN Ok(d.date) ELSE Err("InvalidCalendarDate")

create_naive_date(year, month, day) ==
    IF ~validate_year(year).ok THEN validate_year(year)
    ELSE IF ~validate_month(month).ok THEN validate_month(month)
    ELSE IF ~validate_day(day).ok THEN validate_day(day)
    ELSE LET d == from_ymd_opt(year, month, day)
         IN  IF d.some THEN Ok(d.date) ELSE Err("InvalidCalendarDate")

RECURSIVE LookupMonth(_, _)
LookupMonth(month_lower, k) ==
    IF k > Len(month_names) THEN Err("UnknownMonthName")
    ELSE IF Chars(month_names[k][1]) = month_lower THEN Ok(month_names[k][2])
    ELSE LookupMonth(month_lower, k + 1)

\* the name cut to its first three letters before the lookup
parse_month_name_prefix(month_str) == LookupMonth(SubSeq(to_lowercase(month_str), 1, 3), 1)

\* the name looked up as typed, without to_lowercase
parse_month_name_cased(month_str) == LookupMonth(month_str, 1)

parse_month_name(month_str) == LookupMonth(to_lowercase(month_str), 1)

\* the lines of the message of the last error of parse, after "Supported
\* formats:": the name of a shape and its examples
SupportedFormats ==
    << [shape |-> "Single year", example |-> "1990"],
       [shape |-> "Year-month", example |-> "1990-01 or Jan 1990"],
       [shape |-> "Full date", example |-> "1990-01-01"],
       [shape |-> "Year range", example |-> "1990-1995"],
       [shape |-> "Year list", example |-> "1990,1992,1994"] >>

\* the error returned when nothing matches: "Invalid date format: '{}'"
\* with the trimmed input, and the supported formats
UnrecognizedFormat(s) ==
    [ok |-> FALSE, error |-> "UnrecognizedFormat", input |-> s, formats |-> SupportedFormats]

RECURSIVE ParseListFrom(_, _, _)
\* the loop of parse_list over the parts k.. of the split, years pushed so far
ParseListFrom(parts, k, years) ==
    IF k > Len(parts)
    THEN IF years = <<>> THEN Err("EmptyList") ELSE Ok(List(years))
    ELSE LET part == trim(parts[k])
             c    == year_regex(part)
         IN  IF part = <<>> THEN ParseListFrom(parts, k + 1, years)
             ELSE IF ~c.matched THEN Err("InvalidListMember")
             ELSE LET y == parse_u32(c.caps[1])
                  IN  IF ~y.ok THEN y
                      ELSE IF ~validate_year(y.value).ok THEN validate_year(y.value)
                      ELSE IF \E j \in 1..Len(years) : years[j] = y.value
                           THEN Err("DuplicateInList")
                      ELSE ParseListFrom(parts, k + 1, Append(years, y.value))

\* a part that is no year reported with the error of an unrecognized input
parse_list_unrecognized(s) ==
    LET r == ParseListFrom(split(s), 1, <<>>)
    IN  IF ~r.ok /\ r.error = "InvalidListMember" THEN UnrecognizedFormat(s) ELSE r

\* the parts that are no four-digit year skipped like the empty ones
parse_list_lenient(s) ==
    ParseListFrom(SelectSeq(split(s), LAMBDA part : year_regex(trim(part)).matched), 1, <<>>)

\* the years returned in ascending order instead of the order typed
parse_list_sorted(s) ==
    LET r == ParseListFrom(split(s), 1, <<>>)
    IN  IF ~r.ok THEN r
        ELSE LET ys == {r.value.years[k] : k \in 1..Len(r.value.years)}
             IN  Ok(List([k \in 1..Len(r.value.years) |->
                       CHOOSE y \in ys : Cardinality({z \in ys : z < y}) = k - 1]))

parse_list(s) == ParseListFrom(split(s), 1, <<>>)

ParseRange(c) ==
    LET a == parse_u32(c.caps[1])
        b == parse_u32(c.caps[2])
    IN  IF ~a.ok THEN a
        ELSE IF ~b.ok THEN b
        ELSE IF ~validate_year_range(a.value, b.value).ok
             THEN validate_year_range(a.value, b.value)
        ELSE Ok(Range(a.value, b.value))

ParseFullDate(c) ==
    LET y == parse_u32(c.caps[1])
        m == parse_u32(c.caps[2])
        d == parse_u32(c.caps[3])
    IN  IF ~y.ok THEN y
        ELSE IF ~m.ok THEN m
        ELSE IF ~d.ok THEN d
        ELSE LET date == create_naive_date(y.value, m.value, d.value)
             IN  IF ~date.ok THEN date ELSE Ok(FullDate(date.value))

\* in the form with a month name, the year validated before the name is
\* looked up
ParseYearMonth_year_first(c) ==
    IF c.alt = 1
    THEN LET y == parse_u32(c.caps[1])
             m == parse_u32(c.caps[2])
         IN  IF ~y.ok THEN y
             ELSE IF ~m.ok THEN m
             ELSE IF ~validate_year(y.value).ok THEN validate_year(y.value)
             ELSE IF ~validate_month(m.value).ok THEN validate_month(m.value)
             ELSE Ok(YearMonth(y.value, m.value))
    ELSE LET y == parse_u32(c.caps[2])
             m == parse_month_name(c.caps[1])
         IN  IF ~y.ok THEN y
             ELSE IF ~validate_year(y.value).ok THEN validate_year(y.value)
             ELSE IF ~m.ok THEN m
             ELSE Ok(YearMonth(y.value, m.value))

ParseYearMonth(c) ==
    IF c.alt = 1
    THEN LET y == parse_u32(c.caps[1])
             m == parse_u32(c.caps[2])
         IN  IF ~y.ok THEN y
             ELSE IF ~m.ok THEN m
             ELSE IF ~validate_year(y.value).ok THEN validate_year(y.value)
             ELSE IF ~validate_month(m.value).ok THEN validate_month(m.value)
             ELSE Ok(YearMonth(y.value, m.value))
    ELSE LET y == parse_u32(c.caps[2])
             m == parse_month_name(c.caps[1])
         IN  IF ~y.ok THEN y
             ELSE IF ~m.ok THEN m
             ELSE IF ~validate_year(y.value).ok THEN validate_year(y.value)
             ELSE Ok(YearMonth(y.value, m.value))

ParseYear(c) ==
    LET y == parse_u32(c.caps[1])
    IN  IF ~y.ok THEN y
        ELSE IF ~validate_year(y.value).ok THEN validate_year(y.value)
        ELSE Ok(Year(y.value))

\* the emptiness test made on the input as given, before it is trimmed
parse_untrimmed(raw) ==
    LET s == trim(raw)
    IN  IF raw = <<>> THEN Err("EmptyInput")
        ELSE IF contains_comma(s) THEN parse_list(s)
        ELSE IF range_regex(s).matched THEN ParseRange(range_regex(s))
        ELSE IF full_date_regex(s).matched THEN ParseFullDate(full_date_regex(s))
        ELSE IF year_month_regex(s).matched THEN ParseYearMonth(year_month_regex(s))
        ELSE IF year_regex(s).matched THEN ParseYear(year_regex(s))
        ELSE UnrecognizedFormat(s)

\* DateParser::parse
parse(raw) ==
    LET s == trim(raw)
    IN  IF s = <<>> THEN Err("EmptyInput")
        ELSE IF contains_comma(s) THEN parse_list(s)
        ELSE IF range_regex(s).matched THEN ParseRange(range_regex(s))
        ELSE IF full_date_regex(s).matched THEN ParseFullDate(full_date_regex(s))
        ELSE IF year_month_regex(s).matched THEN ParseYearMonth(year_month_regex(s))
        ELSE IF year_regex(s).matched THEN ParseYear(year_regex(s))
        ELSE UnrecognizedFormat(s)

(***************************************************************************)
(* Timestamp generation.  A DateTime<Utc> is a NaiveDate with an hour, a     *)
(* minute and a second; its order is the order of instants.                 *)
(***************************************************************************)
\* NaiveDate::and_hms_opt followed by Utc.from_utc_datetime
and_hms_opt(date, hour, minute, second) ==
    IF hour < 24 /\ minute < 60 /\ second < 60
    THEN [some |-> TRUE,
          time |-> [date |-> date, hour |-> hour, minute |-> minute, second |-> second]]
    ELSE [some |-> FALSE]

Min(a, b) == IF a < b THEN a ELSE b

Max(a, b) == IF a > b THEN a ELSE b

\* the hour handed on without the clamp to 23
create_timestamp_unclamped(date, hour) ==
    LET t == and_hms_opt(date, hour, 0, 0)
    IN  IF t.some THEN Ok(t.time) ELSE Err("InvalidTime")

create_timestamp(date, hour) ==
    LET h == MinU32(hour, 23)
        t == and_hms_opt(date, h, 0, 0)
    IN  IF t.some THEN Ok(t.time) ELSE Err("InvalidTime")

\* the fields of a timestamp from the most to the least significant
Fields(t) == <<t.date.year, t.date.ordinal, t.hour, t.minute, t.second>>

\* Ord for DateTime<Utc>, a <= b: the order of instants, which is the
\* lexicographic order of the fields
Before(a, b) ==
    \/ a = b
    \/ \E k \in 1..5 : /\ Fields(a)[k] < Fields(b)[k]
                       /\ \A j \in 1..(k - 1) : Fields(a)[j] = Fields(b)[j]

RECURSIVE Merge(_, _)
\* two sorted runs merged; of two equal elements the one of a comes first
Merge(a, b) ==
    IF a = <<>> THEN b
    ELSE IF b = <<>> THEN a
    ELSE IF Before(a[Len(a)], b[1]) THEN a \o b
    ELSE IF Before(a[1], b[1]) THEN <<a[1]>> \o Merge(Tail(a), b)
    ELSE <<b[1]>> \o Merge(a, Tail(b))

RECURSIVE SortRange(_, _, _)
SortRange(ts, lo, hi) ==
    IF lo > hi THEN <<>>
    ELSE IF lo = hi THEN <<ts[lo]>>
    ELSE LET mid == (lo + hi) \div 2
         IN  Merge(SortRange(ts, lo, mid), SortRange(ts, mid + 1, hi))

\* Vec::sort: a stable merge sort, ascending
sort(ts) == SortRange(ts, 1, Len(ts))

\* first failure of a sequence of results, or the sequence of their values
Collect(items) ==
    IF \E k \in 1..Len(items) : ~items[k].ok
    THEN items[CHOOSE k \in 1..Len(items) :
                  ~items[k].ok /\ \A j \in 1..(k - 1) : items[j].ok]
    ELSE Ok([k \in 1..Len(items) |-> items[k].value])

YearCommitCount == 4

\* every commit of the year put on the day of the first one
YearCommit_same_day(year, cfg, i) ==
    LET days_in_year  == IF is_leap_year(year) THEN 366 ELSE 365
        day_offset    == days_in_year \div (YearCommitCount + 1)
        start_of_year == from_ymd_opt(year, 1, 1)
        hour          == IF cfg.distribute_times THEN 9 + ((i * 3) % 13) ELSE cfg.default_hour
    IN  IF ~start_of_year.some THEN Err("InvalidYear")
        ELSE create_timestamp(AddDays(start_of_year.date, Min(day_offset, days_in_year - 1)), hour)

\* noon used in place of default_hour when the times are not distributed
YearCommit_noon(year, cfg, i) ==
    LET days_in_year  == IF is_leap_year(year) THEN 366 ELSE 365
        day_offset    == (days_in_year \div (YearCommitCount + 1)) * (i + 1)
        start_of_year == from_ymd_opt(year, 1, 1)
        hour          == IF cfg.distribute_times THEN 9 + ((i * 3) % 13) ELSE 12
    IN  IF ~start_of_year.some THEN Err("InvalidYear")
        ELSE create_timestamp(AddDays(start_of_year.date, Min(day_offset, days_in_year - 1)), hour)

\* the year divided into commit_count parts instead of commit_count + 1
YearCommit_parts(year, cfg, i) ==
    LET days_in_year  == IF is_leap_year(year) THEN 366 ELSE 365
        day_offset    == (days_in_year \div YearCommitCount) * (i + 1)
        start_of_year == from_ymd_opt(year, 1, 1)
        hour          == IF cfg.distribute_times THEN 9 + ((i * 3) % 13) ELSE cfg.default_hour
    IN  IF ~start_of_year.some THEN Err("InvalidYear")
        ELSE create_timestamp(AddDays(start_of_year.date, Min(day_offset, days_in_year - 1)), hour)

\* the body of the loop of generate_year_timestamps for index i
YearCommit(year, cfg, i) ==
    LET days_in_year  == IF is_leap_year(year) THEN 366 ELSE 365
        day_offset    == (days_in_year \div (YearCommitCount + 1)) * (i + 1)
        start_of_year == from_ymd_opt(year, 1, 1)
        hour          == IF cfg.distribute_times THEN 9 + ((i * 3) % 13) ELSE cfg.default_hour
    IN  IF ~start_of_year.some THEN Err("InvalidYear")
        ELSE create_timestamp(AddDays(start_of_year.date, Min(day_offset, days_in_year - 1)), hour)

\* the loop run from the last index down to the first
generate_year_timestamps_reversed(year, cfg) ==
    LET stamps == Collect([k \in 1..YearCommitCount |-> YearCommit(year, cfg, YearCommitCount - k)])
    IN  IF ~stamps.ok THEN stamps
        ELSE IF cfg.chronological_order THEN Ok(sort(stamps.value))
        ELSE stamps

generate_year_timestamps(year, cfg) ==
    LET stamps == Collect([k \in 1..YearCommitCount |-> YearCommit(year, cfg, k - 1)])
    IN  IF ~stamps.ok THEN stamps
        ELSE IF cfg.chronological_order THEN Ok(sort(stamps.value))
        ELSE stamps

MonthCommitCount == 2

\* the distributed hour taken modulo 24 instead of being clamped
MonthCommit_midnight(year, month, dim, cfg, i, overflow_checks) ==
    LET day         == Max((dim \div (MonthCommitCount + 1)) * (i + 1), 1)
        target_date == from_ymd_opt(year, month, day)
        hour        == IF cfg.distribute_times
                       THEN Ok((cfg.default_hour + ((i * 2) % 8)) % 24)
                       ELSE Ok(cfg.default_hour)
    IN  IF ~target_date.some THEN Err("InvalidDate")
        ELSE create_timestamp(target_date.date, hour.value)

\* the day counted from index i instead of i + 1, with no lower bound of 1
MonthCommit_from_zero(year, month, dim, cfg, i, overflow_checks) ==
    LET day         == (dim \div (MonthCommitCount + 1)) * i
        target_date == from_ymd_opt(year, month, day)
        hour        == IF cfg.distribute_times
                       THEN AddU32(cfg.default_hour, (i * 2) % 8, overflow_checks)
                       ELSE Ok(cfg.default_hour)
    IN  IF ~target_date.some THEN Err("InvalidDate")
        ELSE IF ~hour.ok THEN hour
        ELSE create_timestamp(target_date.date, hour.value)

\* the body of the loop of generate_month_timestamps for index i
MonthCommit(year, month, dim, cfg, i, overflow_checks) ==
    LET day         == Max((dim \div (MonthCommitCount + 1)) * (i + 1), 1)
        target_date == from_ymd_opt(year, month, day)
        hour        == IF cfg.distribute_times
                       THEN AddU32(cfg.default_hour, (i * 2) % 8, overflow_checks)
                       ELSE Ok(cfg.default_hour)
    IN  IF ~target_date.some THEN Err("InvalidDate")
        ELSE IF ~hour.ok THEN hour
        ELSE create_timestamp(target_date.date, hour.value)

generate_month_timestamps(year, month, cfg, overflow_checks) ==
    LET dim == days_in_month(year, month)
    IN  IF ~dim.ok THEN dim
        ELSE LET stamps == Collect([k \in 1..MonthCommitCount |->
                               MonthCommit(year, month, dim.value, cfg, k - 1, overflow_checks)])
             IN  IF ~stamps.ok THEN stamps
                 ELSE IF cfg.chronological_order THEN Ok(sort(stamps.value))
                 ELSE stamps

\* the hour of the year distribution used when distribute_times is set
generate_single_timestamp_spread(date, cfg) ==
    LET t == create_timestamp(date, IF cfg.distribute_times THEN 9 ELSE cfg.default_hour)
    IN  IF ~t.ok THEN t ELSE Ok(<<t.value>>)

generate_single_timestamp(date, cfg) ==
    LET t == create_timestamp(date, cfg.default_hour)
    IN  IF ~t.ok THEN t ELSE Ok(<<t.value>>)

RECURSIVE Flatten(_, _, _)
\* the sequences seqs[lo], ..., seqs[hi] one after the other
Flatten(seqs, lo, hi) ==
    IF lo > hi THEN <<>>
    ELSE IF lo = hi THEN seqs[lo]
    ELSE LET mid == (lo + hi) \div 2
         IN  Flatten(seqs, lo, mid) \o Flatten(seqs, mid + 1, hi)

\* the loop shared by generate_range_timestamps and generate_list_timestamps:
\* all_timestamps extended by the timestamps of each year in turn, left by
\* the first failure
ExtendYears(years, cfg) ==
    LET year_timestamps == Collect([k \in 1..Len(years) |-> generate_year_timestamps(years[k], cfg)])
    IN  IF ~year_timestamps.ok THEN year_timestamps
        ELSE Ok(Flatten(year_timestamps.value, 1, Len(years)))

\* the loop run from end_year down to start_year
generate_range_timestamps_reversed(start_year, end_year, cfg) ==
    LET years == [k \in 1..(end_year - start_year + 1) |-> end_year - k + 1]
        all   == ExtendYears(years, cfg)
    IN  IF ~all.ok THEN all
        ELSE IF cfg.chronological_order THEN Ok(sort(all.value))
        ELSE all

\* the loop over start_year..end_year, the end year left out
generate_range_timestamps_exclusive(start_year, end_year, cfg) ==
    LET years == [k \in 1..(end_year - start_year) |-> start_year + k - 1]
        all   == ExtendYears(years, cfg)
    IN  IF ~all.ok THEN all
        ELSE IF cfg.chronological_order THEN Ok(sort(all.value))
        ELSE all

generate_range_timestamps(start_year, end_year, cfg) ==
    LET years == [k \in 1..(end_year - start_year + 1) |-> start_year + k - 1]
        all   == ExtendYears(years, cfg)
    IN  IF ~all.ok THEN all
        ELSE IF cfg.chronological_order THEN Ok(sort(all.value))
        ELSE all

\* the final sort left out
generate_list_timestamps_unsorted(years, cfg) == ExtendYears(years, cfg)

\* the final sort done whatever chronological_order says
generate_list_timestamps_sorted(years, cfg) ==
    LET all == ExtendYears(years, cfg)
    IN  IF ~all.ok THEN all ELSE Ok(sort(all.value))

generate_list_timestamps(years, cfg) ==
    LET all == ExtendYears(years, cfg)
    IN  IF ~all.ok THEN all
        ELSE IF cfg.chronological_order THEN Ok(sort(all.value))
        ELSE all

generate_timestamps(date_input, cfg, overflow_checks) ==
    CASE date_input.tag = "Year" -> generate_year_timestamps(date_input.year, cfg)
      [] date_input.tag = "YearMonth" ->
            generate_month_timestamps(date_input.year, date_input.month, cfg, overflow_checks)
      [] date_input.tag = "FullDate" -> generate_single_timestamp(date_input.date, cfg)
      [] date_input.tag = "Range" ->
            generate_range_timestamps(date_input.start, date_input.end, cfg)
      [] date_input.tag = "List" -> generate_list_timestamps(date_input.years, cfg)

(***************************************************************************)
(* The state machine: a caller holds a string and a TimestampConfig, hands  *)
(* the string to DateParser::parse and a successfully parsed DateInput,     *)
(* with the configuration, to generate_timestamps.                         *)
(***************************************************************************)
Nothing == <<>>

\* impl Default for TimestampConfig
DefaultConfig == [default_hour |-> 18, distribute_times |-> TRUE, chronological_order |-> TRUE]

\* largest hour of the documented domain of default_hour
MaxHour == 23

\* default_hour is a u32: the documented hours, hours above them up to
\* MaxHourInput, and the two largest values of the type
MaxHourInput == 25

HourInputs == 0..MaxHourInput \cup {U32FromTop(2), U32FromTop(1)}

Configs == [default_hour : HourInputs, distribute_times : BOOLEAN, chronological_order : BOOLEAN]

\* leading and trailing blanks of an input
MaxPad == 1

Spaces(n) == [i \in 1..n |-> " "]

Pads == {Spaces(n) : n \in 0..MaxPad}

DigitChar == <<"0", "1", "2", "3", "4", "5", "6", "7", "8", "9">>

\* decimal numerals of n with one, two and four digits
Digits1(n) == <<DigitChar[n + 1]>>

Digits2(n) == <<DigitChar[(n \div 10) + 1], DigitChar[(n % 10) + 1]>>

Digits4(n) == Digits2(n \div 100) \o Digits2(n % 100)

\* every four-digit string between blanks of pads, and strings close to that
\* shape
YearInputs(pads) ==
    {p \o ds \o q : p \in pads, q \in pads, ds \in [1..4 -> AsciiDigits]}
    \cup {<<"1", "9", "9">>, <<"1", "9", "9", "0", "0">>, <<"1", "9", "a", "0">>,
          <<"1", "9", " ", "9", "0">>, <<"\t", "2", "0", "0", "0", "\t", " ">>,
          <<"U+0663", "U+0663", "U+0663", "U+0663">>, <<"1", "9", "9", "U+0663">>,
          <<>>, <<" ">>, <<"\t", " ">>}

\* the strings of at most MaxPad + 2 whitespace characters, the empty one
\* included
BlankInputs == UNION {[1..n -> Whitespace] : n \in 0..(MaxPad + 2)}

Start(inputs, configs) ==
    /\ input \in inputs
    /\ parsed = Nothing
    /\ config \in configs
    /\ timestamps = Nothing
    /\ pc = "start"

\* one numeral for each year of the window
CanonicalYearInputs == {Digits4(y) : y \in MinYear..MaxYear}

InitYear ==
    \/ Start(YearInputs(Pads), {DefaultConfig})
    \/ Start(BlankInputs, {DefaultConfig})
    \/ Start(CanonicalYearInputs, Configs)

\* years around the two ends of the accepted window and all between
YearsAround == (MinYear - 1)..(MaxYear + 1)

\* numerals a month or a day can be typed with: one digit, two digits
Numerals(lo, hi) ==
    {Digits1(n) : n \in {k \in lo..hi : k <= 9}} \cup {Digits2(n) : n \in lo..hi}
    \cup {Digits2(99)}

\* name with the letters at the positions of upper in upper case
Cased(name, upper) ==
    [i \in 1..Len(name) |-> IF i \in upper THEN UpperOf[name[i]] ELSE name[i]]

\* lower case, upper case, capitalised, alternating
CaseStyles(name) ==
    {Cased(name, {}), Cased(name, 1..Len(name)), Cased(name, {1}),
     Cased(name, {i \in 1..Len(name) : i % 2 = 0})}

TableNames == {Chars(month_names[k][1]) : k \in 1..Len(month_names)}

\* alphabetic tokens that are no month name, shorter and longer ones included
OtherNames ==
    {<<"x", "y", "z">>, <<"j", "a">>, <<"j", "a", "n", "u">>, <<"m", "a", "y", "s">>,
     <<"s", "e", "p", "t", "e", "m", "b", "e", "r", "s">>, <<"j", "a", "n", "v", "i", "e", "r">>}

YearMonthInputs(pads) ==
    {p \o Digits4(y) \o <<"-">> \o m \o q :
        p \in pads, q \in pads, y \in YearsAround, m \in Numerals(0, 13)}
    \cup {p \o n \o <<" ">> \o Digits4(y) \o q :
        p \in pads, q \in pads, y \in YearsAround,
        n \in UNION {CaseStyles(name) : name \in TableNames \cup OtherNames}}
    \* the names of the table in every letter case, before one year
    \cup UNION {{Cased(name, upper) \o <<" ">> \o b \o Digits4(2000) :
                    b \in pads, upper \in SUBSET (1..Len(name))} : name \in TableNames}
    \cup {<<"j", "a", "n">> \o Digits4(1990), <<"1", "9", "9", "0", " ", "j", "a", "n">>,
          <<"j", "a", "n", "\t", "1", "9", "9", "0">>,
          <<"1", "9", "9", "0", "-">>, <<"1", "9", "9", "0", " ", "-", "0", "1">>,
          <<"1", "9", "9", "0", "-", "0", "0", "1">>,
          <<"1", "9", "9", "0", "-", "U+0663">>,
          <<"j", "a", "n", " ", "1", "9", "9", "U+0663">>}

CanonicalYearMonthInputs ==
    {Digits4(y) \o <<"-">> \o Digits2(m) : y \in MinYear..MaxYear, m \in 1..12}

InitYearMonth ==
    \/ Start(YearMonthInputs(Pads), {DefaultConfig})
    \/ Start(CanonicalYearMonthInputs, Configs)

\* years of the full dates: outside both ends of the window, its two ends,
\* a leap year, the leap century year and a common year
FullDateYears == {1969, 1970, 1972, 1999, 2000, 2030, 2031}

FullDateInputs(pads) ==
    {Digits4(y) \o <<"-">> \o m \o <<"-">> \o d :
        y \in FullDateYears, m \in Numerals(0, 13), d \in Numerals(0, 32)}
    \cup {p \o Digits4(y) \o <<"-">> \o Digits2(2) \o <<"-">> \o Digits2(d) \o q :
        p \in pads, q \in pads, y \in YearsAround, d \in 28..30}
    \cup {<<"1", "9", "9", "0", "-", "0", "1", "-">>,
          <<"1", "9", "9", "0", "-", "0", "1", " ", "-", "0", "1">>,
          <<"1", "9", "9", "0", "-", "0", "1", "-", "0", "0", "1">>,
          <<"1", "9", "9", "0", "-", "0", "1", "-", "0", "U+0663">>,
          <<"9", "0", "-", "0", "1", "-", "0", "1">>}

\* every day of every year of the window
AllDateInputs ==
    {Digits4(y) \o <<"-">> \o Digits2(m) \o <<"-">> \o Digits2(d) :
        y \in MinYear..MaxYear, m \in 1..12, d \in 1..31}

\* the years whose days are generated under every configuration
CanonicalDateYears == {1970, 2000, 2030}

CanonicalDateInputs ==
    {Digits4(y) \o <<"-">> \o Digits2(m) \o <<"-">> \o Digits2(d) :
        y \in CanonicalDateYears, m \in 1..12, d \in 1..31}

InitFullDate ==
    \/ Start(FullDateInputs(Pads), {DefaultConfig})
    \/ Start(AllDateInputs, {DefaultConfig})
    \/ Start(CanonicalDateInputs, Configs)

\* differences end - start of the typed ranges: around 0 and around the
\* largest accepted size
RangeOffsets ==
    {0 - 1, 0, 1, 2, MaxRangeSize - 2, MaxRangeSize - 1, MaxRangeSize, MaxRangeSize + 1}

RangeInputs(pads) ==
    UNION {{Digits4(a) \o p \o <<"-">> \o q \o Digits4(b) :
               p \in pads, q \in pads,
               b \in {a + k : k \in RangeOffsets} \cup {MinYear - 1, MinYear, MaxYear, MaxYear + 1}} :
            a \in YearsAround}
    \cup {p \o Digits4(1990) \o <<"-">> \o Digits4(1992) \o q : p \in pads, q \in pads}
    \cup {<<"1", "9", "9", "0", "-", "-", "1", "9", "9", "5">>,
          <<"1", "9", "9", "0", "-", "1", "9", "9">>,
          <<"1", "9", "9", "0", "-", "1", "9", "9", "5", "0">>,
          <<"1", "9", "9", "0", "\t", "-", "1", "9", "9", "5">>,
          <<"1", "9", "9", "0", "-", "1", "9", "9", "U+0663">>}

CanonicalRangeInputs ==
    UNION {{Digits4(a) \o <<"-">> \o Digits4(b) :
               b \in {a + k : k \in RangeOffsets} \cup {MaxYear}} : a \in MinYear..MaxYear}

InitRange ==
    \/ Start(RangeInputs(Pads), {DefaultConfig})
    \/ Start(CanonicalRangeInputs, Configs)

\* the parts of the typed lists: years inside and outside the window, blank
\* and empty parts, and parts that are no year
MaxListLen == 3

ListParts ==
    {Digits4(y) : y \in {MinYear - 1, MinYear, 1990, 1995, MaxYear, MaxYear + 1}}
    \cup {<<" ", "1", "9", "9", "0", " ">>, <<"1", "9", "9", "5", " ">>}
    \cup {<<>>, <<" ">>, <<"a", "b", "c">>, <<"1", "9", "9">>,
          <<"1", "9", "9", "0", "-", "1", "9", "9", "5">>,
          <<"1", "9", "9", "U+0663">>}

RECURSIVE Join(_)
\* the parts separated by commas
Join(parts) ==
    IF Len(parts) = 1 THEN parts[1] ELSE parts[1] \o <<",">> \o Join(Tail(parts))

\* the lists of 2 to len parts
ListInputs(len) ==
    {Join(parts) : parts \in UNION {[1..n -> ListParts] : n \in 2..len}}

\* lists of years of the window in every order, repeated years included
CanonicalListInputs(len) ==
    {Join(parts) : parts \in UNION {[1..n -> {Digits4(y) : y \in {MinYear, 1990, 1995, MaxYear}}] :
                                      n \in 2..len}}

InitList ==
    \/ Start(ListInputs(MaxListLen), {DefaultConfig})
    \/ Start(CanonicalListInputs(MaxListLen), Configs)

\* parser.parse(input)
Parse ==
    /\ pc = "start"
    /\ parsed' = parse(input)
    /\ pc' = "parsed"
    /\ UNCHANGED <<input, config, timestamps>>

\* generate_timestamps(&date_input, &config) on the value parse returned, in a
\* build with or without overflow checks
Generate ==
    /\ pc = "parsed"
    /\ parsed.ok
    /\ \E overflow_checks \in BOOLEAN :
          timestamps' = generate_timestamps(parsed.value, config, overflow_checks)
    /\ pc' = "generated"
    /\ UNCHANGED <<input, parsed, config>>

Next == Parse \/ Generate

SpecYear == InitYear /\ [][Next]_vars

SpecYearMonth == InitYearMonth /\ [][Next]_vars

SpecFullDate == InitFullDate /\ [][Next]_vars

SpecRange == InitRange /\ [][Next]_vars

SpecList == InitList /\ [][Next]_vars

\* the strings of every family, under the default configuration
Init ==
    \/ Start(YearInputs(Pads), {DefaultConfig})
    \/ Start(BlankInputs, {DefaultConfig})
    \/ Start(YearMonthInputs(Pads), {DefaultConfig})
    \/ Start(FullDateInputs(Pads), {DefaultConfig})
    \/ Start(AllDateInputs, {DefaultConfig})
    \/ Start(RangeInputs(Pads), {DefaultConfig})
    \/ Start(ListInputs(MaxListLen), {DefaultConfig})

Spec == Init /\ [][Next]_vars

\* the ranges generated under every configuration together with the other
\* variants: one to three years from every start year, and two of the
\* largest accepted size
OrderRangeInputs ==
    UNION {{Digits4(a) \o <<"-">> \o Digits4(b) : b \in a..Min(a + 2, MaxYear)} :
            a \in MinYear..MaxYear}
    \cup {Digits4(MinYear) \o <<"-">> \o Digits4(MinYear + MaxRangeSize - 1),
          Digits4(MaxYear - MaxRangeSize + 1) \o <<"-">> \o Digits4(MaxYear)}

\* one string for each value of each variant, under every configuration
InitCanonical ==
    \/ Start(CanonicalYearInputs, Configs)
    \/ Start(CanonicalYearMonthInputs, Configs)
    \/ Start(CanonicalDateInputs, Configs)
    \/ Start(OrderRangeInputs, Configs)
    \/ Start(CanonicalListInputs(MaxListLen), Configs)

SpecCanonical == InitCanonical /\ [][Next]_vars

\* the years, month and day numerals and month names of the spaced inputs
SpacingYears == {1990, 2030}

SpacingMonths == {Digits1(2), Digits2(12)}

SpacingDays == {Digits1(1), Digits2(28)}

SpacingNames == {<<"J", "a", "n">>, <<"d", "e", "c", "e", "m", "b", "e", "r">>}

\* inputs of every shape with blanks of pads before and after each
\* component and each separator
SpacedInputs(pads) ==
    {p1 \o Digits4(y) \o p2 : p1 \in pads, p2 \in pads, y \in SpacingYears}
    \cup {p1 \o Digits4(y) \o p2 \o <<"-">> \o p3 \o m \o p4 :
             p1 \in pads, p2 \in pads, p3 \in pads, p4 \in pads,
             y \in SpacingYears, m \in SpacingMonths}
    \cup {p1 \o n \o <<" ">> \o p2 \o Digits4(y) \o p3 :
             p1 \in pads, p2 \in pads, p3 \in pads, y \in SpacingYears, n \in SpacingNames}
    \cup {p1 \o Digits4(y) \o p2 \o <<"-">> \o p3 \o m \o p4 \o <<"-">> \o p5 \o d \o p6 :
             p1 \in pads, p2 \in pads, p3 \in pads, p4 \in pads, p5 \in pads, p6 \in pads,
             y \in SpacingYears, m \in SpacingMonths, d \in SpacingDays}
    \cup {p1 \o Digits4(1990) \o p2 \o <<"-">> \o p3 \o Digits4(b) \o p4 :
             p1 \in pads, p2 \in pads, p3 \in pads, p4 \in pads, b \in SpacingYears}
    \cup {p1 \o Digits4(a) \o p2 \o <<",">> \o p3 \o Digits4(b) \o p4 :
             p1 \in pads, p2 \in pads, p3 \in pads, p4 \in pads,
             a \in SpacingYears, b \in SpacingYears \cup {1995}}

InitSpacing == Start(SpacedInputs(Pads), {DefaultConfig})

SpecSpacing == InitSpacing /\ [][Next]_vars

(***************************************************************************)
(* The two calendar functions on their own: a caller holds a year and a     *)
(* month and asks either whether the year is a leap year or for the number  *)
(* of days of the month.                                                   *)
(***************************************************************************)
\* the years 0..MaxCalendarYear: six centuries around the accepted window
\* and the turns of the centuries before it
MaxCalendarYear == 2400

\* the months 0..MaxCalendarMonth and the largest u32
MaxCalendarMonth == 13

CalendarInputs ==
    [year : 0..MaxCalendarYear, month : 0..MaxCalendarMonth \cup {U32FromTop(1)}]

InitCalendar ==
    /\ input \in CalendarInputs
    /\ parsed = Nothing
    /\ config = DefaultConfig
    /\ timestamps = Nothing
    /\ pc = "calendar"

\* is_leap_year(year)
LeapYear ==
    /\ pc = "calendar"
    /\ parsed' = is_leap_year(input.year)
    /\ pc' = "leap"
    /\ UNCHANGED <<input, config, timestamps>>

\* days_in_month(year, month)
DaysInMonth ==
    /\ pc = "calendar"
    /\ parsed' = days_in_month(input.year, input.month)
    /\ pc' = "days"
    /\ UNCHANGED <<input, config, timestamps>>

NextCalendar == LeapYear \/ DaysInMonth

SpecCalendar == InitCalendar /\ [][NextCalendar]_vars

(***************************************************************************)
(* The calendar and the input shapes the properties are stated against,     *)
(* written without the parser's and the generator's own definitions.       *)
(***************************************************************************)
GregorianLeap(y) == (y % 4 = 0 /\ y % 100 # 0) \/ y % 400 = 0

GregorianMonthLength(y, m) ==
    IF m = 2 THEN (IF GregorianLeap(y) THEN 29 ELSE 28)
    ELSE IF m \in {4, 6, 9, 11} THEN 30
    ELSE 31

GregorianYearLength(y) == IF GregorianLeap(y) THEN 366 ELSE 365

\* the day of the year of day d of month m
GregorianOrdinal(y, m, d) ==
    LET before[k \in 1..12] == IF k = 1 THEN 0 ELSE before[k - 1] + GregorianMonthLength(y, k - 1)
    IN  before[m] + d

\* s without its leading and trailing blanks
Unpadded(s) ==
    LET solid == {i \in 1..Len(s) : s[i] \notin {" ", "\t"}}
    IN  IF solid = {} THEN <<>>
        ELSE SubSeq(s, CHOOSE i \in solid : \A j \in solid : i <= j,
                       CHOOSE i \in solid : \A j \in solid : j <= i)

AllAsciiDigits(s) == \A i \in 1..Len(s) : s[i] \in AsciiDigits

\* the number a string of ASCII digits of length 1 to 4 denotes
Numeral(s) ==
    LET v[k \in 0..Len(s)] == IF k = 0 THEN 0 ELSE 10 * v[k - 1] + DigitValue[s[k]]
    IN  v[Len(s)]

InWindow(y) == 1970 <= y /\ y <= 2030

(***************************************************************************)
(* C1: whenever parse succeeds, every year field of the value it returns    *)
(* (Year, YearMonth, FullDate, both ends of a Range, every element of a     *)
(* List) lies in 1970..2030 and every month field (YearMonth, FullDate)     *)
(* lies in 1..12.                                                          *)
(***************************************************************************)
C1_FieldsInBounds ==
    (pc # "start" /\ parsed.ok) =>
        LET v == parsed.value
        IN  /\ v.tag = "Year" => InWindow(v.year)
            /\ v.tag = "YearMonth" => InWindow(v.year) /\ v.month \in 1..12
            /\ v.tag = "FullDate" => InWindow(v.date.year) /\ MonthOf(v.date) \in 1..12
            /\ v.tag = "Range" => InWindow(v.start) /\ InWindow(v.end)
            /\ v.tag = "List" => \A k \in 1..Len(v.years) : InWindow(v.years[k])

\* a year-month at the upper end of both bounds has been returned
C1_Witness ==
    /\ pc = "parsed"
    /\ parsed.ok
    /\ parsed.value = YearMonth(2030, 12)

(***************************************************************************)
(* C2: a four-digit decimal string y, with or without blanks around it,     *)
(* parses to Year(y) when 1970 <= y <= 2030 and fails with YearOutOfRange   *)
(* otherwise.                                                              *)
(***************************************************************************)
C2_SingleYear ==
    (pc = "parsed" /\ Len(Unpadded(input)) = 4 /\ AllAsciiDigits(Unpadded(input))) =>
        LET y == Numeral(Unpadded(input))
        IN  parsed = IF InWindow(y) THEN Ok(Year(y)) ELSE Err("YearOutOfRange")

\* the last year of the window, typed between blanks, has been parsed
C2_Witness ==
    /\ pc = "parsed"
    /\ input = <<" ", "2", "0", "3", "0", " ">>
    /\ parsed = Ok(Year(2030))

(***************************************************************************)
(* C3: an input YYYY-M[M]-D[D] with the year in 1970..2030, the month in    *)
(* 1..12 and the day in 1..31 parses to FullDate(year, month, day) exactly  *)
(* when the day is at most the number of days of that month of that year    *)
(* (leap-year rule), and fails with InvalidCalendarDate otherwise.         *)
(***************************************************************************)
\* the position of the second dash of a string shaped YYYY-M[M]-D[D], 0 if
\* the string has another shape
SecondDash(u) ==
    IF /\ Len(u) \in 8..10
       /\ u[5] = "-"
       /\ AllAsciiDigits(SubSeq(u, 1, 4))
       /\ \E k \in 7..8 : /\ u[k] = "-"
                          /\ Len(u) - k \in 1..2
                          /\ AllAsciiDigits(SubSeq(u, 6, k - 1))
                          /\ AllAsciiDigits(SubSeq(u, k + 1, Len(u)))
    THEN CHOOSE k \in 7..8 : u[k] = "-" /\ AllAsciiDigits(SubSeq(u, 6, k - 1))
    ELSE 0

C3_FullDate ==
    LET u == Unpadded(input)
        k == SecondDash(u)
        y == Numeral(SubSeq(u, 1, 4))
        m == Numeral(SubSeq(u, 6, k - 1))
        d == Numeral(SubSeq(u, k + 1, Len(u)))
    IN  (pc = "parsed" /\ k # 0 /\ InWindow(y) /\ m \in 1..12 /\ d \in 1..31) =>
            IF d <= GregorianMonthLength(y, m)
            THEN /\ parsed = Ok(FullDate([year |-> y, ordinal |-> GregorianOrdinal(y, m, d)]))
                 /\ MonthOf(parsed.value.date) = m
                 /\ DayOf(parsed.value.date) = d
            ELSE parsed = Err("InvalidCalendarDate")

\* the leap day of the year 2000, typed with a one-digit month, has been
\* parsed to a date
C3_Witness ==
    /\ pc = "parsed"
    /\ input = <<"2", "0", "0", "0", "-", "2", "-", "2", "9">>
    /\ parsed.ok
    /\ parsed.value.tag = "FullDate"

(***************************************************************************)
(* C4: an input 'a - b' (two four-digit numbers, one dash, optional blanks) *)
(* fails with YearOutOfRange if a or b is outside 1970..2030, else with     *)
(* InvalidRange::StartAfterEnd if a > b, else with InvalidRange::TooLarge   *)
(* if b - a + 1 > 50, and else parses to Range(a, b).                       *)
(***************************************************************************)
RangeShape(u) ==
    /\ Len(u) >= 9
    /\ AllAsciiDigits(SubSeq(u, 1, 4))
    /\ AllAsciiDigits(SubSeq(u, Len(u) - 3, Len(u)))
    /\ \E k \in 5..(Len(u) - 4) :
          /\ u[k] = "-"
          /\ \A j \in (5..(Len(u) - 4)) \ {k} : u[j] \in {" ", "\t"}

C4_Range ==
    LET u == Unpadded(input)
        a == Numeral(SubSeq(u, 1, 4))
        b == Numeral(SubSeq(u, Len(u) - 3, Len(u)))
    IN  (pc = "parsed" /\ RangeShape(u)) =>
            parsed = IF ~InWindow(a) \/ ~InWindow(b) THEN Err("YearOutOfRange")
                     ELSE IF a > b THEN Err("InvalidRange::StartAfterEnd")
                     ELSE IF b - a + 1 > 50 THEN Err("InvalidRange::TooLarge")
                     ELSE Ok(Range(a, b))

\* a range of exactly 50 years has been accepted
C4_Witness ==
    /\ pc = "parsed"
    /\ input = <<"1", "9", "7", "0", " ", "-", " ", "2", "0", "1", "9">>
    /\ parsed = Ok(Range(1970, 2019))

(***************************************************************************)
(* C5: a comma-containing input whose parts are four-digit years of         *)
(* 1970..2030 parses to the List of the years in the order typed when they  *)
(* are pairwise distinct and fails with DuplicateInList when a year occurs  *)
(* twice; an input of commas and blanks only fails with EmptyList; every    *)
(* List that parse returns is non-empty and free of duplicates.            *)
(***************************************************************************)
\* the positions of the commas of s, with 0 and Len(s) + 1 as sentinels
Cuts(s) == {0, Len(s) + 1} \cup {i \in 1..Len(s) : s[i] = ","}

\* the parts of s between consecutive commas, from left to right
PartsOf(s) ==
    LET cuts == Cuts(s)
        nth[k \in 1..Cardinality(cuts)] ==
            CHOOSE c \in cuts : Cardinality({e \in cuts : e < c}) = k - 1
    IN  [k \in 1..(Cardinality(cuts) - 1) |-> Unpadded(SubSeq(s, nth[k] + 1, nth[k + 1] - 1))]

IsWindowYear(part) == Len(part) = 4 /\ AllAsciiDigits(part) /\ InWindow(Numeral(part))

C5_List ==
    LET parts == PartsOf(input)
        years == [k \in 1..Len(parts) |-> Numeral(parts[k])]
    IN  /\ (pc = "parsed" /\ Len(parts) >= 2 /\ \A k \in 1..Len(parts) : IsWindowYear(parts[k])) =>
              parsed = IF \A i, j \in 1..Len(years) : years[i] = years[j] => i = j
                       THEN Ok(List(years))
                       ELSE Err("DuplicateInList")
        /\ (pc = "parsed" /\ Len(parts) >= 2 /\ \A k \in 1..Len(parts) : parts[k] = <<>>) =>
              parsed = Err("EmptyList")
        /\ (pc # "start" /\ parsed.ok /\ parsed.value.tag = "List") =>
              /\ parsed.value.years # <<>>
              /\ \A i, j \in 1..Len(parsed.value.years) :
                    parsed.value.years[i] = parsed.value.years[j] => i = j

\* three distinct years typed in descending order have been returned in
\* that order
C5_Witness ==
    /\ pc = "parsed"
    /\ input = <<"2", "0", "3", "0", ",", "1", "9", "9", "5", ",", "1", "9", "9", "0">>
    /\ parsed = Ok(List(<<2030, 1995, 1990>>))

(***************************************************************************)
(* C6: for a year y of 1970..2030 and a month m of 1..12, the numeric form  *)
(* 'y-m' (month with one or two digits), the three-letter English           *)
(* abbreviation of m and the full English name of m, in any letter case,    *)
(* followed by blanks and y, all parse to YearMonth(y, m).                  *)
(***************************************************************************)
EnglishMonths ==
    << <<"j","a","n","u","a","r","y">>, <<"f","e","b","r","u","a","r","y">>,
       <<"m","a","r","c","h">>, <<"a","p","r","i","l">>, <<"m","a","y">>,
       <<"j","u","n","e">>, <<"j","u","l","y">>, <<"a","u","g","u","s","t">>,
       <<"s","e","p","t","e","m","b","e","r">>, <<"o","c","t","o","b","e","r">>,
       <<"n","o","v","e","m","b","e","r">>, <<"d","e","c","e","m","b","e","r">> >>

\* a and b are the same word up to letter case
SameWord(a, b) ==
    /\ Len(a) = Len(b)
    /\ \A i \in 1..Len(a) :
          \/ a[i] = b[i]
          \/ a[i] \in UpperLetters /\ b[i] \in LowerLetters /\ UpperOf[b[i]] = a[i]
          \/ a[i] \in LowerLetters /\ b[i] \in UpperLetters /\ UpperOf[a[i]] = b[i]

\* u is month m typed by name: the full name or its first three letters,
\* one blank or more, four digits
NamesMonth(u, m) ==
    \E n \in {3, Len(EnglishMonths[m])} :
        /\ Len(u) >= n + 5
        /\ SameWord(SubSeq(u, 1, n), SubSeq(EnglishMonths[m], 1, n))
        /\ \A j \in (n + 1)..(Len(u) - 4) : u[j] \in {" ", "\t"}
        /\ AllAsciiDigits(SubSeq(u, Len(u) - 3, Len(u)))

\* u is month m typed by number behind a four-digit year and a dash
NumbersMonth(u, m) ==
    /\ Len(u) \in 6..7
    /\ u[5] = "-"
    /\ AllAsciiDigits(SubSeq(u, 1, 4))
    /\ AllAsciiDigits(SubSeq(u, 6, Len(u)))
    /\ Numeral(SubSeq(u, 6, Len(u))) = m

C6_YearMonthForms ==
    LET u == Unpadded(input)
    IN  pc = "parsed" =>
            \A m \in 1..12 :
                /\ (NumbersMonth(u, m) /\ InWindow(Numeral(SubSeq(u, 1, 4)))) =>
                      parsed = Ok(YearMonth(Numeral(SubSeq(u, 1, 4)), m))
                /\ (NamesMonth(u, m) /\ InWindow(Numeral(SubSeq(u, Len(u) - 3, Len(u))))) =>
                      parsed = Ok(YearMonth(Numeral(SubSeq(u, Len(u) - 3, Len(u))), m))

\* the longest name, in upper case, has been parsed to its month
C6_Witness ==
    /\ pc = "parsed"
    /\ input = <<"S", "E", "P", "T", "E", "M", "B", "E", "R", " ", "2", "0", "3", "0">>
    /\ parsed = Ok(YearMonth(2030, 9))

(***************************************************************************)
(* Timestamps as the properties state them.  The configurations of the      *)
(* properties C7 to C10 are those of the documented domain: default_hour    *)
(* in 0..23.                                                               *)
(***************************************************************************)
Stamp(y, ordinal, hour) ==
    [date |-> [year |-> y, ordinal |-> ordinal], hour |-> hour, minute |-> 0, second |-> 0]

DocumentedHour(cfg) == cfg.default_hour \in 0..23

\* a is not later than b
NotLater(a, b) ==
    \/ a.date.year < b.date.year
    \/ a.date.year = b.date.year /\ a.date.ordinal < b.date.ordinal
    \/ a.date.year = b.date.year /\ a.date.ordinal = b.date.ordinal /\ a.hour <= b.hour

(***************************************************************************)
(* C7: for Year(y), generate returns exactly 4 timestamps, all in calendar  *)
(* year y; the i-th (i = 0..3) is on Jan 1 of y plus                        *)
(* min((D div 5) * (i+1), D-1) days, D being 366 in a leap year and 365     *)
(* otherwise, at hour 9 + ((i*3) mod 13) when distribute_times is set (at   *)
(* least two distinct hours then occur) and at default_hour otherwise.     *)
(***************************************************************************)
C7_YearTimestamps ==
    (pc = "generated" /\ parsed.value.tag = "Year" /\ DocumentedHour(config)) =>
        LET y == parsed.value.year
            D == GregorianYearLength(y)
            offset(i) == IF (D \div 5) * (i + 1) < D - 1 THEN (D \div 5) * (i + 1) ELSE D - 1
            hour(i) == IF config.distribute_times THEN 9 + ((i * 3) % 13) ELSE config.default_hour
        IN  /\ timestamps.ok
            /\ Len(timestamps.value) = 4
            /\ \A i \in 0..3 :
                  /\ timestamps.value[i + 1] = Stamp(y, 1 + offset(i), hour(i))
                  /\ 1 + offset(i) <= D
            /\ config.distribute_times =>
                  Cardinality({timestamps.value[k].hour : k \in 1..4}) >= 2

\* the four timestamps of a leap year have been generated with the hours
\* distributed
C7_Witness ==
    /\ pc = "generated"
    /\ parsed.value = Year(2000)
    /\ config.distribute_times
    /\ DocumentedHour(config)
    /\ timestamps.ok
    /\ timestamps.value[4] = Stamp(2000, 293, 18)

(***************************************************************************)
(* C8: for YearMonth(y, m), generate returns exactly 2 timestamps, both in  *)
(* month m of year y; the i-th (i = 0, 1) is on day max(1, (M div 3)*(i+1)) *)
(* where M is the number of days of month m in year y, at hour              *)
(* default_hour + ((i*2) mod 8) when distribute_times is set and at         *)
(* default_hour otherwise, an hour above 23 being replaced by 23.          *)
(***************************************************************************)
C8_MonthTimestamps ==
    (pc = "generated" /\ parsed.value.tag = "YearMonth" /\ DocumentedHour(config)) =>
        LET y == parsed.value.year
            m == parsed.value.month
            M == GregorianMonthLength(y, m)
            day(i) == IF (M \div 3) * (i + 1) > 1 THEN (M \div 3) * (i + 1) ELSE 1
            spread(i) == IF config.distribute_times
                         THEN config.default_hour + ((i * 2) % 8)
                         ELSE config.default_hour
            hour(i) == IF spread(i) > 23 THEN 23 ELSE spread(i)
        IN  /\ timestamps.ok
            /\ Len(timestamps.value) = 2
            /\ \A i \in 0..1 :
                  /\ timestamps.value[i + 1] = Stamp(y, GregorianOrdinal(y, m, day(i)), hour(i))
                  /\ day(i) <= M
                  /\ MonthOf(timestamps.value[i + 1].date) = m
                  /\ DayOf(timestamps.value[i + 1].date) = day(i)

\* the two timestamps of a leap February have been generated from the last
\* documented hour, the second one clamped to 23
C8_Witness ==
    /\ pc = "generated"
    /\ parsed.value = YearMonth(2000, 2)
    /\ config.default_hour = 23
    /\ config.distribute_times
    /\ timestamps.ok
    /\ timestamps.value = <<Stamp(2000, 40, 23), Stamp(2000, 49, 23)>>

(***************************************************************************)
(* C9: for FullDate(d), generate returns exactly 1 timestamp, on date d at  *)
(* hour default_hour, minute and second 0, whatever distribute_times and    *)
(* chronological_order are.                                                *)
(***************************************************************************)
C9_SingleTimestamp ==
    (pc = "generated" /\ parsed.value.tag = "FullDate" /\ DocumentedHour(config)) =>
        timestamps = Ok(<<[date |-> parsed.value.date, hour |-> config.default_hour,
                           minute |-> 0, second |-> 0]>>)

\* the timestamp of a leap day has been generated with distribute_times set
C9_Witness ==
    /\ pc = "generated"
    /\ parsed.value.tag = "FullDate"
    /\ parsed.value.date = [year |-> 2000, ordinal |-> 60]
    /\ config = [default_hour |-> 7, distribute_times |-> TRUE, chronological_order |-> FALSE]
    /\ timestamps = Ok(<<Stamp(2000, 60, 7)>>)

(***************************************************************************)
(* C10: for Range(a, b), generate returns exactly 4 * (b - a + 1)           *)
(* timestamps: the timestamps of Year(a), Year(a+1), ..., Year(b) one after *)
(* the other; the first is in year a, the last in year b, and the sequence  *)
(* is ascending.                                                           *)
(***************************************************************************)
C10_RangeTimestamps ==
    (pc = "generated" /\ parsed.value.tag = "Range" /\ DocumentedHour(config)) =>
        LET a == parsed.value.start
            b == parsed.value.end
            n == 4 * (b - a + 1)
        IN  /\ timestamps.ok
            /\ Len(timestamps.value) = n
            /\ \A j \in 0..(b - a) :
                  LET of_year == generate_year_timestamps(a + j, config)
                  IN  /\ of_year.ok
                      /\ SubSeq(timestamps.value, 4 * j + 1, 4 * j + 4) = of_year.value
            /\ timestamps.value[1].date.year = a
            /\ timestamps.value[n].date.year = b
            /\ \A k \in 1..(n - 1) : NotLater(timestamps.value[k], timestamps.value[k + 1])

\* the 200 timestamps of a range of 50 years have been generated without
\* the final sort
C10_Witness ==
    /\ pc = "generated"
    /\ parsed.value = Range(1970, 2019)
    /\ ~config.chronological_order
    /\ DocumentedHour(config)
    /\ timestamps.ok
    /\ Len(timestamps.value) = 200

(***************************************************************************)
(* C11: for List(years), under every configuration, generate returns        *)
(* exactly 4 * Len(years) timestamps, exactly 4 of them in each listed      *)
(* year; when chronological_order is false the output is the timestamps of  *)
(* the years one after the other in list order, not sorted.                *)
(***************************************************************************)
\* an hour as create_timestamp hands it on: hours above 23 become 23
ClampedHour(h) == IF h \in 0..23 THEN h ELSE 23

\* the four timestamps the Year rule gives for year y
YearStamps(y, cfg) ==
    LET D == GregorianYearLength(y)
        offset(i) == IF (D \div 5) * (i + 1) < D - 1 THEN (D \div 5) * (i + 1) ELSE D - 1
        hour(i) == IF cfg.distribute_times THEN 9 + ((i * 3) % 13)
                   ELSE ClampedHour(cfg.default_hour)
    IN  [k \in 1..4 |-> Stamp(y, 1 + offset(k - 1), hour(k - 1))]

C11_ListTimestamps ==
    (pc = "generated" /\ parsed.value.tag = "List") =>
        LET years == parsed.value.years
            n == Len(years)
        IN  /\ timestamps.ok
            /\ Len(timestamps.value) = 4 * n
            /\ \A k \in 1..n :
                  Cardinality({j \in 1..Len(timestamps.value) :
                                  timestamps.value[j].date.year = years[k]}) = 4
            /\ ~config.chronological_order =>
                  \A k \in 1..n :
                      SubSeq(timestamps.value, 4 * k - 3, 4 * k) = YearStamps(years[k], config)

\* the timestamps of a list typed in descending order have been generated
\* without the final sort: those of 1995 come before those of 1990
C11_Witness ==
    /\ pc = "generated"
    /\ parsed.value = List(<<1995, 1990>>)
    /\ ~config.chronological_order
    /\ timestamps.ok
    /\ timestamps.value[1].date.year = 1995
    /\ timestamps.value[8].date.year = 1990

(***************************************************************************)
(* C12: under a configuration with chronological_order set, the sequence    *)
(* generate returns, for a value of any variant, is ascending (no element   *)
(* is earlier than its predecessor) and is a permutation of the sequence    *)
(* returned for the same value with chronological_order cleared.           *)
(***************************************************************************)
\* the number of places of s that hold x
Occurrences(s, x) == Cardinality({k \in 1..Len(s) : s[k] = x})

IsPermutation(a, b) ==
    /\ Len(a) = Len(b)
    /\ \A x \in {a[k] : k \in 1..Len(a)} : Occurrences(a, x) = Occurrences(b, x)

C12_ChronologicalOrder ==
    (pc = "generated" /\ config.chronological_order /\ timestamps.ok) =>
        /\ \A k \in 1..(Len(timestamps.value) - 1) :
              NotLater(timestamps.value[k], timestamps.value[k + 1])
        /\ \E overflow_checks \in BOOLEAN :
              LET unordered == generate_timestamps(parsed.value,
                                   [config EXCEPT !.chronological_order = FALSE],
                                   overflow_checks)
              IN  /\ unordered.ok
                  /\ IsPermutation(timestamps.value, unordered.value)

\* the timestamps of a list typed in descending order have been generated
\* with the final sort: those of 1990 come first
C12_Witness ==
    /\ pc = "generated"
    /\ parsed.value = List(<<1995, 1990>>)
    /\ config.chronological_order
    /\ timestamps.ok
    /\ timestamps.value[1].date.year = 1990
    /\ timestamps.value[8].date.year = 1995

(***************************************************************************)
(* C13: under every configuration, a default_hour above 23 included,        *)
(* generate returns timestamps, for a value of any variant, and each has    *)
(* minute 0, second 0 and an hour of at most 23: an hour computed above 23  *)
(* is clamped to 23 and makes generate neither fail nor panic.             *)
(***************************************************************************)
C13_HoursClamped ==
    pc = "generated" =>
        /\ timestamps.ok
        /\ \A k \in 1..Len(timestamps.value) :
              /\ timestamps.value[k].minute = 0
              /\ timestamps.value[k].second = 0
              /\ timestamps.value[k].hour \in 0..23

(***************************************************************************)
(* C15: for every value parse returns and every configuration of the        *)
(* documented domain, generate succeeds: the first day of the year, the     *)
(* computed day of the month and the hour can always be constructed.       *)
(***************************************************************************)
C15_GenerateSucceeds ==
    (pc = "generated" /\ DocumentedHour(config)) =>
        /\ timestamps.ok
        /\ Len(timestamps.value) >= 1

\* the two timestamps of the February of a leap year have been generated
\* from the latest hour, the second hour being computed above 23
C15_Witness ==
    /\ pc = "generated"
    /\ parsed.value = YearMonth(2000, 2)
    /\ config.default_hour = 23
    /\ config.distribute_times
    /\ timestamps.ok
    /\ Len(timestamps.value) = 2

(***************************************************************************)
(* C16: an input that is empty or holds whitespace characters only fails    *)
(* with EmptyInput.                                                        *)
(***************************************************************************)
C16_EmptyInput ==
    (pc = "parsed" /\ \A i \in 1..Len(input) : input[i] \in {" ", "\t"}) =>
        parsed = Err("EmptyInput")

\* a tab followed by a space has been rejected as empty
C16_Witness ==
    /\ pc = "parsed"
    /\ input = <<"\t", " ">>
    /\ parsed = Err("EmptyInput")

(***************************************************************************)
(* C17: a non-empty input without a comma that has none of the shapes of a  *)
(* year range, a full date, a year-month and a single year fails with       *)
(* UnrecognizedFormat, and the failure describes the five accepted shapes:  *)
(* single year, year-month, full date, year range, year list.              *)
(***************************************************************************)
\* the characters of s are digits of the class \d
AllDigits(s) == \A i \in 1..Len(s) : s[i] \in AsciiDigits \cup {"U+0663"}

AllBlank(s) == \A i \in 1..Len(s) : s[i] \in {" ", "\t"}

AllLetters(s) == \A i \in 1..Len(s) : s[i] \in LowerLetters \cup UpperLetters

SingleYearShape(u) == Len(u) = 4 /\ AllDigits(u)

YearRangeShape(u) ==
    /\ Len(u) >= 9
    /\ AllDigits(SubSeq(u, 1, 4))
    /\ AllDigits(SubSeq(u, Len(u) - 3, Len(u)))
    /\ \E k \in 5..(Len(u) - 4) :
          /\ u[k] = "-"
          /\ AllBlank(SubSeq(u, 5, k - 1))
          /\ AllBlank(SubSeq(u, k + 1, Len(u) - 4))

FullDateShape(u) ==
    \E k \in 7..8 :
        /\ Len(u) - k \in 1..2
        /\ AllDigits(SubSeq(u, 1, 4))
        /\ u[5] = "-"
        /\ AllDigits(SubSeq(u, 6, k - 1))
        /\ u[k] = "-"
        /\ AllDigits(SubSeq(u, k + 1, Len(u)))

YearMonthShape(u) ==
    \/ /\ Len(u) \in 6..7
       /\ AllDigits(SubSeq(u, 1, 4))
       /\ u[5] = "-"
       /\ AllDigits(SubSeq(u, 6, Len(u)))
    \/ \E n \in 3..9 :
          /\ Len(u) >= n + 5
          /\ AllLetters(SubSeq(u, 1, n))
          /\ AllBlank(SubSeq(u, n + 1, Len(u) - 4))
          /\ AllDigits(SubSeq(u, Len(u) - 3, Len(u)))

AcceptedShapes == {"Single year", "Year-month", "Full date", "Year range", "Year list"}

C17_UnrecognizedFormat ==
    LET u == Unpadded(input)
    IN  (/\ pc = "parsed"
         /\ u # <<>>
         /\ \A i \in 1..Len(input) : input[i] # ","
         /\ ~YearRangeShape(u) /\ ~FullDateShape(u) /\ ~YearMonthShape(u) /\ ~SingleYearShape(u)) =>
            /\ ~parsed.ok
            /\ parsed.error = "UnrecognizedFormat"
            /\ {parsed.formats[k].shape : k \in 1..Len(parsed.formats)} = AcceptedShapes

\* a string of five digits has been rejected with the description of the
\* formats
C17_Witness ==
    /\ pc = "parsed"
    /\ input = <<"1", "9", "9", "0", "0">>
    /\ ~parsed.ok
    /\ parsed.error = "UnrecognizedFormat"
    /\ Len(parsed.formats) = 5

(***************************************************************************)
(* C18: in the form '<name> YYYY' with a year of 1970..2030, the names      *)
(* that resolve to a month are, up to letter case, the twelve three-letter  *)
(* English abbreviations, the twelve full English names and 'sept' (for     *)
(* September): each resolves to its month, and no other token does.  As    *)
(* first stated, without 'sept', the property is C18_OnlyEnglishNames.     *)
(***************************************************************************)
\* the number of letters s starts with
LeadingLetters(s) ==
    Cardinality({i \in 1..Len(s) : \A j \in 1..i : s[j] \in LowerLetters \cup UpperLetters})

\* u is a token of letters, one blank or more, and a year of the window
NameForm(u) ==
    LET n == LeadingLetters(u)
    IN  /\ n >= 1
        /\ Len(u) >= n + 5
        /\ \A j \in (n + 1)..(Len(u) - 4) : u[j] \in {" ", "\t"}
        /\ AllAsciiDigits(SubSeq(u, Len(u) - 3, Len(u)))
        /\ InWindow(Numeral(SubSeq(u, Len(u) - 3, Len(u))))

\* the months whose full English name or three-letter abbreviation is token
MonthsNamed(token) ==
    {m \in 1..12 : \/ SameWord(token, EnglishMonths[m])
                   \/ SameWord(token, SubSeq(EnglishMonths[m], 1, 3))}

\* the original statement: only the abbreviations and the full names resolve
C18_OnlyEnglishNames ==
    LET u == Unpadded(input)
        token == SubSeq(u, 1, LeadingLetters(u))
    IN  (pc = "parsed" /\ NameForm(u)) => (parsed.ok <=> MonthsNamed(token) # {})

C18_MonthNames ==
    LET u == Unpadded(input)
        token == SubSeq(u, 1, LeadingLetters(u))
        y == Numeral(SubSeq(u, Len(u) - 3, Len(u)))
        months == MonthsNamed(token) \cup
                  (IF SameWord(token, <<"s", "e", "p", "t">>) THEN {9} ELSE {})
    IN  (pc = "parsed" /\ NameForm(u)) =>
            /\ parsed.ok <=> months # {}
            /\ parsed.ok => \E m \in months : parsed = Ok(YearMonth(y, m))
            /\ Cardinality(months) <= 1

\* the four-letter abbreviation of September has been resolved
C18_Witness ==
    /\ pc = "parsed"
    /\ input = <<"S", "e", "p", "t", " ", "2", "0", "0", "0">>
    /\ parsed = Ok(YearMonth(2000, 9))

(***************************************************************************)
(* C19: for an input with a comma, parse returns a List only if every part  *)
(* between commas that is not empty after trimming is exactly four digits;  *)
(* the parts that are empty after trimming are skipped, so the List holds   *)
(* the years of the other parts in order ("1990," gives List([1990])), and  *)
(* an input with a non-empty part that is not four digits is rejected.  As  *)
(* first stated, with empty parts rejected too, the property is            *)
(* C19_EveryPartAYear.                                                     *)
(***************************************************************************)
FourDigits(part) == Len(part) = 4 /\ AllAsciiDigits(part)

\* the original statement: a List is returned only if every part is four
\* digits
C19_EveryPartAYear ==
    LET parts == PartsOf(input)
    IN  (pc = "parsed" /\ Len(parts) >= 2 /\ parsed.ok) =>
            /\ parsed.value.tag = "List"
            /\ \A k \in 1..Len(parts) : FourDigits(parts[k])

C19_ListParts ==
    LET parts == PartsOf(input)
        solid == {k \in 1..Len(parts) : parts[k] # <<>>}
        \* the i-th non-empty part
        nth(i) == CHOOSE k \in solid : Cardinality({j \in solid : j < k}) = i - 1
        distinct == \A j, k \in solid : parts[j] = parts[k] => j = k
    IN  (pc = "parsed" /\ Len(parts) >= 2) =>
            /\ parsed.ok =>
                  /\ parsed.value.tag = "List"
                  /\ \A k \in solid : FourDigits(parts[k])
                  /\ Len(parsed.value.years) = Cardinality(solid)
                  /\ \A i \in 1..Cardinality(solid) :
                        parsed.value.years[i] = Numeral(parts[nth(i)])
            /\ (\E k \in solid : ~FourDigits(parts[k])) => ~parsed.ok
            /\ (solid # {} /\ distinct /\ \A k \in solid : IsWindowYear(parts[k])) => parsed.ok

\* two years around an empty part have been returned as a list of two
C19_Witness ==
    /\ pc = "parsed"
    /\ input = <<"1", "9", "9", "0", ",", ",", "1", "9", "9", "5">>
    /\ parsed = Ok(List(<<1990, 1995>>))

(***************************************************************************)
(* C20: is_leap_year(y) holds exactly when y is divisible by 4 and not by   *)
(* 100, or divisible by 400; days_in_month(y, m) is 31 for m in             *)
(* {1,3,5,7,8,10,12}, 30 for m in {4,6,9,11}, 29 for m = 2 in a leap year   *)
(* and 28 in another year, and fails for every m outside 1..12.            *)
(***************************************************************************)
C20_Calendar ==
    /\ pc = "leap" => (parsed <=> GregorianLeap(input.year))
    /\ pc = "days" =>
          parsed = IF input.month \in {1, 3, 5, 7, 8, 10, 12} THEN Ok(31)
                   ELSE IF input.month \in {4, 6, 9, 11} THEN Ok(30)
                   ELSE IF input.month = 2
                        THEN Ok(IF GregorianLeap(input.year) THEN 29 ELSE 28)
                   ELSE Err("InvalidMonth")

\* the February of 1900, a year divisible by 100 and not by 400, has been
\* given 28 days
C20_Witness ==
    /\ pc = "days"
    /\ input = [year |-> 1900, month |-> 2]
    /\ parsed = Ok(28)

(***************************************************************************)
(* C21: under a configuration of the documented domain with                 *)
(* distribute_times cleared, every timestamp generate returns, for a value  *)
(* of any variant, has the hour default_hour; for a FullDate, generate      *)
(* returns the same whether distribute_times is set or cleared.            *)
(***************************************************************************)
C21_DefaultHour ==
    /\ (pc = "generated" /\ DocumentedHour(config) /\ ~config.distribute_times) =>
          /\ timestamps.ok
          /\ \A k \in 1..Len(timestamps.value) : timestamps.value[k].hour = config.default_hour
    /\ (pc = "generated" /\ parsed.value.tag = "FullDate") =>
          \A overflow_checks \in BOOLEAN :
              timestamps = generate_timestamps(parsed.value,
                               [config EXCEPT !.distribute_times = ~config.distribute_times],
                               overflow_checks)

\* the eight timestamps of a range of two years have been generated at the
\* default hour, without distribution
C21_Witness ==
    /\ pc = "generated"
    /\ parsed.value = Range(1990, 1991)
    /\ config.default_hour = 7
    /\ ~config.distribute_times
    /\ timestamps.ok
    /\ \A k \in 1..8 : timestamps.value[k].hour = 7

(***************************************************************************)
(* C22: blanks added to an accepted input before or after the whole input,  *)
(* around the dash of a year range, around the items of a list or between   *)
(* a month name and its year leave the parse result unchanged; blanks       *)
(* added next to a dash of a numeric year-month or of a full date make the  *)
(* input fail with UnrecognizedFormat.  As first stated, with blanks        *)
(* permitted around every component and separator, the property is          *)
(* C22_BlanksIgnored.                                                      *)
(***************************************************************************)
\* s without its blanks
Squeezed(s) == SelectSeq(s, LAMBDA c : c \notin {" ", "\t"})

\* the input without the blanks added to it: no blank at all, but for the
\* one blank that separates a month name from its year
Unspaced(s) ==
    LET q == Squeezed(s)
        n == LeadingLetters(q)
    IN  IF n >= 1 THEN SubSeq(q, 1, n) \o <<" ">> \o SubSeq(q, n + 1, Len(q)) ELSE q

\* the original statement: the blanks change nothing
C22_BlanksIgnored ==
    (pc = "parsed" /\ parse(Unspaced(input)).ok) => parsed = parse(Unspaced(input))

C22_Blanks ==
    LET plain == parse(Unspaced(input))
        u == Unpadded(input)
        dashed == /\ plain.value.tag \in {"YearMonth", "FullDate"}
                  /\ LeadingLetters(u) = 0
    IN  (pc = "parsed" /\ plain.ok) =>
            IF dashed /\ \E i \in 1..Len(u) : u[i] \in {" ", "\t"}
            THEN ~parsed.ok /\ parsed.error = "UnrecognizedFormat"
            ELSE parsed = plain

\* a range typed with blanks on both sides of both years has been parsed
C22_Witness ==
    /\ pc = "parsed"
    /\ input = <<" ", "1", "9", "9", "0", " ", "-", " ", "2", "0", "3", "0", " ">>
    /\ parsed = Ok(Range(1990, 2030))

(***************************************************************************)
(* C23: an input with a comma is handled as a List only: parse never        *)
(* returns a Year, YearMonth, FullDate or Range for it, and a non-empty     *)
(* part that is not four decimal digits (a range, a full date, a            *)
(* year-month, other text) makes parse fail.  The failure is that of the    *)
(* first non-empty part, from the left, that is rejected:                   *)
(* InvalidListMember for a part that is not four decimal digits,            *)
(* InvalidNumber for four decimal digits that are not all ASCII,            *)
(* YearOutOfRange for a year outside 1970..2030, DuplicateInList for a      *)
(* year typed in an earlier part.  As first stated, with InvalidListMember  *)
(* in every case, the property is C23_AlwaysInvalidListMember.             *)
(***************************************************************************)
\* the non-empty parts that do not consist of exactly four digits
OddParts(parts) ==
    {k \in 1..Len(parts) : parts[k] # <<>> /\ ~(Len(parts[k]) = 4 /\ AllDigits(parts[k]))}

\* the original statement
C23_AlwaysInvalidListMember ==
    LET parts == PartsOf(input)
    IN  (pc = "parsed" /\ Len(parts) >= 2) =>
            /\ parsed.ok => parsed.value.tag = "List"
            /\ OddParts(parts) # {} => parsed = Err("InvalidListMember")

\* what is wrong with the k-th part, given the parts typed before it
PartFailure(parts, k) ==
    IF parts[k] = <<>> THEN "None"
    ELSE IF k \in OddParts(parts) THEN "InvalidListMember"
    ELSE IF ~AllAsciiDigits(parts[k]) THEN "InvalidNumber"
    ELSE IF ~InWindow(Numeral(parts[k])) THEN "YearOutOfRange"
    ELSE IF \E j \in 1..(k - 1) : parts[j] = parts[k] THEN "DuplicateInList"
    ELSE "None"

C23_ListOnly ==
    LET parts == PartsOf(input)
        rejected == {k \in 1..Len(parts) : PartFailure(parts, k) # "None"}
        first == CHOOSE k \in rejected : \A j \in rejected : k <= j
    IN  (pc = "parsed" /\ Len(parts) >= 2) =>
            /\ parsed.ok => parsed.value.tag = "List"
            /\ OddParts(parts) # {} =>
                  /\ ~parsed.ok
                  /\ parsed = Err(PartFailure(parts, first))
                  /\ parsed = Err("InvalidListMember") <=> first \in OddParts(parts)

\* a list whose first item is a range has been rejected for that item
C23_Witness ==
    /\ pc = "parsed"
    /\ input = <<"1", "9", "9", "0", "-", "1", "9", "9", "5", ",", "1", "9", "9", "0">>
    /\ parsed = Err("InvalidListMember")

(***************************************************************************)
(* C24: for an input shaped YYYY-M[M]-D[D] the first failing check of year  *)
(* bounds, month bounds, day bounds (1..31) and calendar construction, in   *)
(* that order, decides the error: YearOutOfRange before MonthOutOfRange     *)
(* before DayOutOfRange, and InvalidCalendarDate only when the three        *)
(* bounds hold and the month has no such day.                              *)
(***************************************************************************)
C24_CheckOrder ==
    LET u == Unpadded(input)
        k == SecondDash(u)
        y == Numeral(SubSeq(u, 1, 4))
        m == Numeral(SubSeq(u, 6, k - 1))
        d == Numeral(SubSeq(u, k + 1, Len(u)))
    IN  (pc = "parsed" /\ k # 0) =>
            IF ~InWindow(y) THEN parsed = Err("YearOutOfRange")
            ELSE IF m \notin 1..12 THEN parsed = Err("MonthOutOfRange")
            ELSE IF d \notin 1..31 THEN parsed = Err("DayOutOfRange")
            ELSE IF d > GregorianMonthLength(y, m) THEN parsed = Err("InvalidCalendarDate")
            ELSE parsed.ok /\ parsed.value.tag = "FullDate"

\* a date with the month and the day both out of bounds has been rejected
\* for its month
C24_Witness ==
    /\ pc = "parsed"
    /\ input = <<"1", "9", "9", "9", "-", "1", "3", "-", "3", "2">>
    /\ parsed = Err("MonthOutOfRange")

(***************************************************************************)
(* C25: for an input made of a token of letters, one blank or more and      *)
(* four digits, whose token is not a recognized month name in any letter    *)
(* case: with a token of 3 to 9 letters parse fails with UnknownMonthName   *)
(* (whatever the year), and with a shorter or longer token it fails with    *)
(* UnrecognizedFormat.  As first stated, with UnknownMonthName whatever     *)
(* the length of the token, the property is C25_UnknownWhateverLength.     *)
(***************************************************************************)
\* u is a token of letters, one blank or more, and four digits
NameAndYear(u) ==
    LET n == LeadingLetters(u)
    IN  /\ n >= 1
        /\ Len(u) >= n + 5
        /\ \A j \in (n + 1)..(Len(u) - 4) : u[j] \in {" ", "\t"}
        /\ AllAsciiDigits(SubSeq(u, Len(u) - 3, Len(u)))

\* token is a name parse resolves: an English month name, its first three
\* letters, or sept
Recognized(token) == MonthsNamed(token) # {} \/ SameWord(token, <<"s", "e", "p", "t">>)

\* the original statement
C25_UnknownWhateverLength ==
    LET u == Unpadded(input)
        token == SubSeq(u, 1, LeadingLetters(u))
    IN  (pc = "parsed" /\ NameAndYear(u) /\ ~Recognized(token)) =>
            parsed = Err("UnknownMonthName")

C25_UnknownMonthName ==
    LET u == Unpadded(input)
        token == SubSeq(u, 1, LeadingLetters(u))
    IN  (pc = "parsed" /\ NameAndYear(u) /\ ~Recognized(token)) =>
            IF Len(token) \in 3..9
            THEN parsed = Err("UnknownMonthName")
            ELSE ~parsed.ok /\ parsed.error = "UnrecognizedFormat"

\* a token of three letters that names no month, before a year outside the
\* window, has been rejected for the name
C25_Witness ==
    /\ pc = "parsed"
    /\ input = <<"x", "y", "z", " ", "1", "9", "6", "9">>
    /\ parsed = Err("UnknownMonthName")

(***************************************************************************)
(* C26: under a configuration of the documented domain with                 *)
(* distribute_times set, the hour of the i-th timestamp of a year (also     *)
(* inside a range or a list) is 9 + ((i*3) mod 13), which is at most 21;    *)
(* the hour of the i-th timestamp of a year-month is                        *)
(* default_hour + ((i*2) mod 8) when default_hour is at most 21, and for    *)
(* default_hour 22 and 23 the second hour is computed as 24 and 25 and is   *)
(* clamped to 23.  As first stated, with no computed hour above 23, the     *)
(* property is C26_NeverAbove23.                                           *)
(***************************************************************************)
\* the hours the distribution formulas compute for the timestamps of the
\* value, before any clamp, in generation order
ComputedHours(value, cfg) ==
    CASE value.tag = "YearMonth" -> [k \in 1..2 |-> cfg.default_hour + (((k - 1) * 2) % 8)]
      [] value.tag = "FullDate" -> <<cfg.default_hour>>
      [] value.tag = "Year" -> [k \in 1..4 |-> 9 + (((k - 1) * 3) % 13)]
      [] value.tag = "Range" ->
            [k \in 1..(4 * (value.end - value.start + 1)) |-> 9 + ((((k - 1) % 4) * 3) % 13)]
      [] value.tag = "List" ->
            [k \in 1..(4 * Len(value.years)) |-> 9 + ((((k - 1) % 4) * 3) % 13)]

\* the original statement: the computed hours are at most 23 and are the
\* hours returned
C26_NeverAbove23 ==
    (pc = "generated" /\ DocumentedHour(config) /\ config.distribute_times) =>
        LET hours == ComputedHours(parsed.value, config)
        IN  /\ timestamps.ok
            /\ Len(timestamps.value) = Len(hours)
            /\ \A k \in 1..Len(hours) :
                  hours[k] <= 23 /\ timestamps.value[k].hour = hours[k]

C26_ComputedHours ==
    (pc = "generated" /\ DocumentedHour(config) /\ config.distribute_times) =>
        LET hours == ComputedHours(parsed.value, config)
        IN  /\ timestamps.ok
            /\ Len(timestamps.value) = Len(hours)
            /\ \A k \in 1..Len(hours) :
                  /\ (hours[k] > 23) <=>
                        /\ parsed.value.tag = "YearMonth"
                        /\ k = 2
                        /\ config.default_hour \in {22, 23}
                  /\ timestamps.value[k].hour = IF hours[k] > 23 THEN 23 ELSE hours[k]
            /\ parsed.value.tag \in {"Year", "Range", "List"} =>
                  \A k \in 1..Len(hours) : hours[k] <= 21

\* the second timestamp of a month has been generated from default_hour 22:
\* its hour, computed as 24, is 23
C26_Witness ==
    /\ pc = "generated"
    /\ parsed.value = YearMonth(1990, 1)
    /\ config.default_hour = 22
    /\ config.distribute_times
    /\ timestamps.ok
    /\ timestamps.value[1].hour = 22
    /\ timestamps.value[2].hour = 23

(***************************************************************************)
(* C27: for a Year, YearMonth, FullDate or Range value, whatever           *)
(* default_hour and distribute_times are, generate_timestamps returns the   *)
(* same result with chronological_order inverted: the flag changes nothing  *)
(* for a value that is no List.                                            *)
(***************************************************************************)
\* the configuration with the chronological_order flag inverted
OtherOrder(cfg) == [cfg EXCEPT !.chronological_order = ~cfg.chronological_order]

C27_OrderFlagOnlyForList ==
    (pc = "generated" /\ parsed.value.tag # "List") =>
        \E overflow_checks \in BOOLEAN :
            timestamps = generate_timestamps(parsed.value, OtherOrder(config), overflow_checks)

\* the timestamps of a range of two years have been generated with the sort
\* requested, and they are those generated without it
C27_Witness ==
    /\ pc = "generated"
    /\ parsed.value = Range(1990, 1991)
    /\ config.chronological_order
    /\ timestamps.ok
    /\ Len(timestamps.value) = 8
    /\ timestamps = generate_timestamps(parsed.value, OtherOrder(config), TRUE)

(***************************************************************************)
(* C29: for a Range(a, b) value and every configuration, the result of      *)
(* generate_timestamps is the result for the List of the years a, a+1,      *)
(* ..., b under the same configuration.                                    *)
(***************************************************************************)
\* the years start..end in ascending order
YearsOf(start, end) == [k \in 1..(end - start + 1) |-> start + k - 1]

C29_RangeAsList ==
    (pc = "generated" /\ parsed.value.tag = "Range") =>
        \A overflow_checks \in BOOLEAN :
            timestamps = generate_timestamps(List(YearsOf(parsed.value.start, parsed.value.end)),
                                             config, overflow_checks)

\* the timestamps of 1990-1992 have been generated unsorted and are those of
\* the list 1990,1991,1992
C29_Witness ==
    /\ pc = "generated"
    /\ parsed.value = Range(1990, 1992)
    /\ ~config.chronological_order
    /\ timestamps.ok
    /\ Len(timestamps.value) = 12
    /\ timestamps = generate_timestamps(List(<<1990, 1991, 1992>>), config, TRUE)

(***************************************************************************)
(* C30: the timestamps generated for a parsed value are pairwise distinct,  *)
(* whatever the configuration; with chronological_order set each timestamp  *)
(* is strictly earlier than the next one.                                  *)
(***************************************************************************)
C30_DistinctTimestamps ==
    (pc = "generated" /\ timestamps.ok) =>
        LET ts == timestamps.value
        IN  /\ \A j \in 1..Len(ts) : \A k \in (j + 1)..Len(ts) : ts[j] # ts[k]
            /\ config.chronological_order =>
                  \A k \in 1..(Len(ts) - 1) : Before(ts[k], ts[k + 1]) /\ ts[k] # ts[k + 1]

\* the eight timestamps of the list 1995,1990 have been generated and
\* sorted: those of 1990 come first
C30_Witness ==
    /\ pc = "generated"
    /\ parsed.value = List(<<1995, 1990>>)
    /\ config.chronological_order
    /\ timestamps.ok
    /\ Len(timestamps.value) = 8
    /\ timestamps.value[1].date.year = 1990
    /\ timestamps.value[8].date.year = 1995

(***************************************************************************)
(* C28: of the five shape tests of parse (a comma in the input, the range   *)
(* pattern, the full-date pattern, the year-month pattern, the single-year  *)
(* pattern) at most one holds of a trimmed input, so that what parse        *)
(* returns is the result of the only rule that applies, or the error of an  *)
(* unrecognized format when none does, in whatever order the rules are      *)
(* tried.                                                                  *)
(***************************************************************************)
\* the shape tests that hold of s
ShapesOf(s) ==
    {shape \in {"list", "range", "full date", "year-month", "year"} :
        CASE shape = "list" -> contains_comma(s)
          [] shape = "range" -> range_regex(s).matched
          [] shape = "full date" -> full_date_regex(s).matched
          [] shape = "year-month" -> year_month_regex(s).matched
          [] shape = "year" -> year_regex(s).matched}

\* what the rule of a shape that holds of s returns
RuleOf(shape, s) ==
    CASE shape = "list" -> parse_list(s)
      [] shape = "range" -> ParseRange(range_regex(s))
      [] shape = "full date" -> ParseFullDate(full_date_regex(s))
      [] shape = "year-month" -> ParseYearMonth(year_month_regex(s))
      [] shape = "year" -> ParseYear(year_regex(s))

C28_OneShape ==
    (pc = "parsed" /\ trim(input) # <<>>) =>
        LET s == trim(input)
        IN  /\ Cardinality(ShapesOf(s)) <= 1
            /\ \A shape \in ShapesOf(s) : parsed = RuleOf(shape, s)
            /\ ShapesOf(s) = {} => parsed = UnrecognizedFormat(s)

\* 1990-1992 has been parsed: only the range pattern matches it
C28_Witness ==
    /\ pc = "parsed"
    /\ trim(input) = <<"1", "9", "9", "0", "-", "1", "9", "9", "2">>
    /\ ShapesOf(trim(input)) = {"range"}
    /\ parsed = Ok(Range(1990, 1992))

====
